---- MODULE Spec2Model ----
(***************************************************************************)
(* Session and role arbiter of moonparty (internal/session), together with *)
(* the HTTP and WebSocket handlers of internal/server that drive it.       *)
(*                                                                         *)
(* Every method of Session and Manager runs under the object's mutex and   *)
(* is one atomic step.  A handler that takes the locks several times is a  *)
(* process with a position (pc) and locals (loc); other goroutines may run *)
(* between two of its steps.                                               *)
(*                                                                         *)
(* The video receiver of moonlight-common-go (video/stream.go) is the      *)
(* second part: the depacketizer, its decode queue and the tasks around    *)
(* them.                                                                   *)
(***************************************************************************)
EXTENDS Integers, Sequences, FiniteSets, TLC

\* ---------------------------------------------------------------- bounds
MaxSessions == 2
MaxPeers == 3
MaxReqs == 1
MaxConns == 1
InputChanCap == 1
\* frames of the sent video stream, packets per frame, packets the receive
\* loop reads, capacity of the decode queue, RequestIDRFrame calls
MaxFrames == 3
PacketsPerFrame == 2
MaxPackets == 4
FrameQueueCap == 2
MaxIDRRequests == 1
\* calls of Client.Start, messages a control stream reads, highest seq of a
\* control message, frames counted in one interval, intervals closed
MaxStarts == 2
MaxControlReads == 2
MaxControlSeq == 2
MaxStatFrames == 4
MaxIntervals == 3
\* calls of Connect (internal/moonlight), Send calls on an input stream
MaxConnects == 2
MaxInputCalls == 3
MaxScrollCalls == 4
MaxAudioPackets == 4
AudioQueueCap == 1
MaxDataShards == 3
MaxParityShards == 2
BlockSize == 1
\* modelled capacity of the upstream media channels (60 and 120 in the code)
MediaQueueCap == 2
\* ticks of the placeholder receive loop
MaxTicks == 2
\* nil frames the fan-out loop takes from a closed channel
MaxNilFrames == 1

\* ------------------------------------------------------------- constants
NoSession == 0
NoPeer == 0
NumSlots == 4

RoleHost == "host"
RolePlayer == "player"
RoleSpectator == "spectator"

InputTypeKeyboard == 0
InputTypeMouse == 1
InputTypeMouseRelative == 2
InputTypeGamepad == 3
InputTypeTouch == 4

InputTypes ==
  {InputTypeKeyboard, InputTypeMouse, InputTypeMouseRelative,
   InputTypeGamepad, InputTypeTouch}

\* input_type strings a client puts in an input message: one that needs the
\* keyboard permission ("mouse" and "mouse_rel" take the same branch of
\* CanSendInput), one that does not ("input" is mapped like "gamepad"), and
\* "control", the name of the reliable data channel, for any unmapped string
InputTypeNames == {"keyboard", "gamepad", "control"}

\* values of the max_players setting handed to NewManager
ConfigMaxPlayers == 0..5

\* DefaultConfig, MaxPlayers
DefaultMaxPlayers == 4

SessionIds == 1..MaxSessions
PeerIds == 1..MaxPeers
\* goroutines serving an HTTP request, and goroutines serving a WebSocket
\* connection (handleWebSocket, then its readPump)
Reqs == 1..MaxReqs
Conns == (MaxReqs + 1)..(MaxReqs + MaxConns)
Procs == Reqs \cup Conns
Slots == 0..(NumSlots - 1)

CapabilityDirectSubmit == 1
CapabilityPullRenderer == 2
\* values of callbacks.Capabilities()
Capabilities == 0..(CapabilityDirectSubmit + CapabilityPullRenderer)

FrameTypeIDR == 1
FrameTypePFrames == 2

\* bits of the RTP header's PacketType byte
PacketTypeIDR == 128
PacketTypeEOF == 64

\* length of the NV video header at the start of a payload
NVHeaderLen == 4

\* video stream: seconds to wait for the first packet, and the read
\* timeout of one poll in milliseconds
FirstFrameTimeoutSec == 10
UDPRecvPollTimeoutMs == 100

\* error code for a connection without video traffic
ErrNoVideoTraffic == -100

\* how a phase of the pairing can end
PairOutcomes == {"local", "io", "rejected", "answer", "ok"}

\* input stream
MaxGamepads == 16
MouseMoveRelMagicGen5 == 7
MouseMoveAbsMagic == 5
MultiControllerMagicGen5 == 30
CtrlChannelMouse == 3
CtrlChannelGamepadBase == 4
ButtonHome == 1024
ButtonA == 4096
ButtonMisc == 65536
ScrollMagicGen5 == 10
WheelDelta == 120
SSControllerArrivalMagic == 90

\* arguments of the Send calls: mouse deltas and stick positions, absolute
\* positions inside the reference size, controller numbers, button flags
Deltas == {-1, 0, 1}
Positions == {0, 1}
RefWidth == 1920
RefHeight == 1080
ControllerNumbers == {0, 1}
ButtonFlags == {0, ButtonA, ButtonMisc}

\* scroll amounts, and host versions on both sides of 7.1.409
ScrollAmounts == {30, 60, -60, 90, 240}
ScrollAppVersions == {<<7, 1, 408, 0>>, <<7, 1, 431, 0>>}

\* audio stream: the audio to drop at the start in milliseconds, the RTP
\* payload type of audio, the packet durations a host announces, and the
\* packets the socket delivers: payload type (127: FEC), shorter than the
\* RTP header or not, and whether its payload decrypts
InitialDropMs == 500
AudioPayloadType == 97
PacketDurations == {250, 500}
AudioPackets == [ptype : {AudioPayloadType, 127}, runt : BOOLEAN,
                 decrypts : BOOLEAN]

\* fec: the Galois field GF(2^8) with its primitive polynomial, and the
\* largest number of shards
GFBits == 8
GFPP == <<1, 0, 1, 1, 1, 0, 0, 0, 1>>
GFSize == 255
DataShardsMax == 255

\* the shard counts a codec is asked for, some of them refused, and the
\* bytes of a data shard
ShardCounts ==
  ((0..MaxDataShards) \X (0..MaxParityShards)) \cup {<<200, 56>>}
ShardBytes == {0, 1, 200}

\* the goroutines that call the input stream
Callers == {1, 2}

\* Stage
StageNone == 0
StagePlatformInit == 1
StageRTSPHandshake == 2
StageControlStreamInit == 3
StageVideoStreamInit == 4
StageAudioStreamInit == 5
StageInputStreamInit == 6
StageControlStreamStart == 7
StageVideoStreamStart == 8
StageAudioStreamStart == 9
StageInputStreamStart == 10
StageComplete == 11

\* ConnectionStatus
ConnStatusOkay == 0
ConnStatusPoor == 1

\* PacketTypesGen7Enc: "RumbleData" and "Termination"; header type of an
\* encrypted control message
PTRumbleData == 267
PTTermination == 265
EncryptedHeaderType == 1

\* ServerInfoAppVersion as parseAppVersion reads it: below and at the
\* version from which the control stream is encrypted
AppVersions == {<<7, 1, 430, 0>>, <<7, 1, 431, 0>>}

\* how a request of an rtsp client can end
Outcomes == {"connect", "io", "status", "200"}

\* the requests of doRTSPHandshake (limelight Client) in program order
doRTSPHandshakeRequests ==
  <<"ANNOUNCE", "DESCRIBE", "SETUP streamid=audio/0/0",
    "SETUP streamid=video/0/0", "SETUP streamid=control/13/0", "PLAY">>

\* the requests of performRTSPHandshake (internal/moonlight) in program
\* order
performRTSPHandshakeRequests ==
  <<"OPTIONS", "DESCRIBE", "SETUP streamid=audio/0/0",
    "SETUP streamid=video/0/0", "SETUP streamid=control/13/0", "ANNOUNCE",
    "PLAY">>

\* messages the host, or whoever writes to the control socket, sends:
\* encrypted frames (headerType 1) carrying seq, and plaintext ones; the
\* payload is an error code in four bytes or in two
ControlMessages ==
  [headerType : {0, EncryptedHeaderType}, seq : 1..MaxControlSeq,
   ptype : {PTTermination, PTRumbleData},
   payload : {<<0, 0, 0, 1>>, <<2, 0>>}]

ErrNone == ""
ErrActive == "a session is already active"
ErrHasHost == "session already has a host"
ErrNotFound == "peer not found"
ErrNoSlots == "no player slots available"
ErrDemoteHost == "cannot demote host"

VARIABLES maxPlayers, sessions, active, sess, nextPeer,
          pc, loc, ret, panicked, shutdown,
          video, decoded,
          limelightClient, start, listener, wire, limelightStream, control, rtsp,
          pairing, inputStream,
          audio, fec, upstream

\* the server: manager, sessions, handlers
serverVars == <<maxPlayers, sessions, active, sess, nextPeer,
                pc, loc, ret, panicked, shutdown>>

\* moonlight-common-go: the video Stream, and the units its decoder
\* callbacks were handed by SubmitDecodeUnit or WaitForNextFrame
commonVars == <<video, decoded>>

\* the limelight Client, the position, call count and result of its Start,
\* what its Listener was called with, the requests its rtsp.Client sent, the
\* LimelightStream behind the Listener, and its control stream
clientVars == <<limelightClient, start, listener, wire, limelightStream, control>>

\* internal/moonlight: the RTSP handshake of a Stream and the Client that
\* pairs; moonlight-common-go: the input stream
restVars == <<rtsp, pairing, inputStream>>

\* moonlight-common-go: the audio Stream and the Reed-Solomon coder;
\* internal/moonlight: the Stream a session reads its frames from
mediaVars == <<audio, fec, upstream>>

vars == <<serverVars, commonVars, clientVars, restVars, mediaVars>>

\* ---------------------------------------------------------------- Manager
\* NewManager: a max-players value outside 1..4 becomes 4
NewManager(cfg) == IF cfg <= 0 \/ cfg > 4 THEN 4 ELSE cfg

\* ---------------------------------------------------------------- Session
Peer(role, slot, kbd) ==
  [Role |-> role, PlayerSlot |-> slot, KeyboardEnabled |-> kbd]

NoPeers == [p \in {} |-> Peer(RoleSpectator, -1, FALSE)]

\* cancelFunc: s.cancelFunc != nil; streamCtxDone: the context streamCtx that
\* cancelFunc cancels is done; streaming: the startStreaming task started for
\* the session, "none" before it starts, the context it was handed while it
\* runs, "returned" once it has returned
NewSession(mp) ==
  [peers |-> NoPeers,
   playerSlot |-> [i \in Slots |-> NoPeer],
   host |-> NoPeer,
   inputChan |-> <<>>,
   closed |-> FALSE,
   maxPlayers |-> mp,
   cancelFunc |-> FALSE,
   streamCtxDone |-> FALSE,
   streaming |-> "none"]

\* s.peers[id] = peer
PutPeer(peers, id, peer) ==
  [p \in (DOMAIN peers) \cup {id} |-> IF p = id THEN peer ELSE peers[p]]

\* delete(s.peers, id)
DeletePeer(peers, id) ==
  [p \in (DOMAIN peers) \ {id} |-> peers[p]]

AddHost(s, id) ==
  IF s.host # NoPeer
  THEN [s |-> s, peer |-> NoPeer, err |-> ErrHasHost]
  ELSE [s |-> [s EXCEPT !.peers = PutPeer(@, id, Peer(RoleHost, 0, TRUE)),
                        !.playerSlot[0] = id,
                        !.host = id],
        peer |-> id, err |-> ErrNone]

AddSpectator(s, id) ==
  [s |-> [s EXCEPT !.peers = PutPeer(@, id, Peer(RoleSpectator, -1, FALSE))],
   peer |-> id, err |-> ErrNone]

\* FindSlot taking the first slot in range whether it is occupied or not
FindSlot_First(s, i) ==
  IF ~(i < s.maxPlayers /\ i < NumSlots) THEN -1 ELSE i

\* FindSlot without the i < s.maxPlayers test
RECURSIVE FindSlot_IgnoreMax(_, _)
FindSlot_IgnoreMax(s, i) ==
  IF ~(i < NumSlots) THEN -1
  ELSE IF s.playerSlot[i] = NoPeer THEN i
  ELSE FindSlot_IgnoreMax(s, i + 1)

\* the loop of PromoteToPlayer: for i := 1; i < s.maxPlayers && i < 4; i++
RECURSIVE FindSlot(_, _)
FindSlot(s, i) ==
  IF ~(i < s.maxPlayers /\ i < NumSlots) THEN -1
  ELSE IF s.playerSlot[i] = NoPeer THEN i
  ELSE FindSlot(s, i + 1)

PromoteToPlayer(s, peerID) ==
  IF peerID \notin DOMAIN s.peers
  THEN [s |-> s, slot |-> -1, err |-> ErrNotFound]
  ELSE IF s.peers[peerID].Role \in {RoleHost, RolePlayer}
  THEN [s |-> s, slot |-> s.peers[peerID].PlayerSlot, err |-> ErrNone]
  ELSE LET slot == FindSlot(s, 1) IN
    IF slot = -1
    THEN [s |-> s, slot |-> -1, err |-> ErrNoSlots]
    ELSE [s |-> [s EXCEPT !.peers[peerID].Role = RolePlayer,
                          !.peers[peerID].PlayerSlot = slot,
                          !.playerSlot[slot] = peerID],
          slot |-> slot, err |-> ErrNone]

\* DemoteToSpectator without peer.PlayerSlot = -1
DemoteToSpectator_KeepSlot(s, peerID) ==
  IF peerID \notin DOMAIN s.peers
  THEN [s |-> s, err |-> ErrNotFound]
  ELSE IF s.peers[peerID].Role = RoleHost
  THEN [s |-> s, err |-> ErrDemoteHost]
  ELSE IF s.peers[peerID].Role = RoleSpectator
  THEN [s |-> s, err |-> ErrNone]
  ELSE LET slot == s.peers[peerID].PlayerSlot IN
    [s |-> [s EXCEPT !.playerSlot =
                        IF slot >= 0 /\ slot < NumSlots
                        THEN [@ EXCEPT ![slot] = NoPeer] ELSE @,
                     !.peers[peerID] = Peer(RoleSpectator, slot, FALSE)],
     err |-> ErrNone]

\* DemoteToSpectator without the peer.Role == RoleHost test
DemoteToSpectator_NoHostCheck(s, peerID) ==
  IF peerID \notin DOMAIN s.peers
  THEN [s |-> s, err |-> ErrNotFound]
  ELSE IF s.peers[peerID].Role = RoleSpectator
  THEN [s |-> s, err |-> ErrNone]
  ELSE LET slot == s.peers[peerID].PlayerSlot IN
    [s |-> [s EXCEPT !.playerSlot =
                        IF slot >= 0 /\ slot < NumSlots
                        THEN [@ EXCEPT ![slot] = NoPeer] ELSE @,
                     !.peers[peerID] = Peer(RoleSpectator, -1, FALSE)],
     err |-> ErrNone]

DemoteToSpectator(s, peerID) ==
  IF peerID \notin DOMAIN s.peers
  THEN [s |-> s, err |-> ErrNotFound]
  ELSE IF s.peers[peerID].Role = RoleHost
  THEN [s |-> s, err |-> ErrDemoteHost]
  ELSE IF s.peers[peerID].Role = RoleSpectator
  THEN [s |-> s, err |-> ErrNone]
  ELSE LET slot == s.peers[peerID].PlayerSlot IN
    [s |-> [s EXCEPT !.playerSlot =
                        IF slot >= 0 /\ slot < NumSlots
                        THEN [@ EXCEPT ![slot] = NoPeer] ELSE @,
                     !.peers[peerID] = Peer(RoleSpectator, -1, FALSE)],
     err |-> ErrNone]

\* RemovePeer without s.playerSlot[peer.PlayerSlot] = nil
RemovePeer_KeepSlot(s, peerID) ==
  IF peerID \notin DOMAIN s.peers THEN s
  ELSE [s EXCEPT !.peers = DeletePeer(@, peerID)]

RemovePeer(s, peerID) ==
  IF peerID \notin DOMAIN s.peers THEN s
  ELSE LET slot == s.peers[peerID].PlayerSlot IN
    [s EXCEPT !.playerSlot =
                 IF slot >= 0 /\ slot < NumSlots
                 THEN [@ EXCEPT ![slot] = NoPeer] ELSE @,
              !.peers = DeletePeer(@, peerID)]

SetKeyboardEnabled(s, peerID, enabled) ==
  IF peerID \notin DOMAIN s.peers THEN s
  ELSE IF s.peers[peerID].Role = RoleHost THEN s
  ELSE [s EXCEPT !.peers[peerID].KeyboardEnabled = enabled]

GetHost(s) == s.host

\* CanSendInput without the spectator test
CanSendInput_NoSpectatorCheck(s, peerID, inputType) ==
  IF peerID \notin DOMAIN s.peers THEN FALSE
  ELSE IF inputType \in {InputTypeKeyboard, InputTypeMouse,
                         InputTypeMouseRelative}
  THEN s.peers[peerID].Role = RoleHost \/ s.peers[peerID].KeyboardEnabled
  ELSE IF inputType = InputTypeGamepad
  THEN s.peers[peerID].Role = RoleHost \/ s.peers[peerID].Role = RolePlayer
  ELSE FALSE

\* CanSendInput giving every player the keyboard
CanSendInput_AnyPlayerKeyboard(s, peerID, inputType) ==
  IF peerID \notin DOMAIN s.peers THEN FALSE
  ELSE IF s.peers[peerID].Role = RoleSpectator THEN FALSE
  ELSE IF inputType \in {InputTypeKeyboard, InputTypeMouse,
                         InputTypeMouseRelative}
  THEN s.peers[peerID].Role = RoleHost \/ s.peers[peerID].Role = RolePlayer
  ELSE IF inputType = InputTypeGamepad
  THEN s.peers[peerID].Role = RoleHost \/ s.peers[peerID].Role = RolePlayer
  ELSE FALSE

CanSendInput(s, peerID, inputType) ==
  IF peerID \notin DOMAIN s.peers THEN FALSE
  ELSE IF s.peers[peerID].Role = RoleSpectator THEN FALSE
  ELSE IF inputType \in {InputTypeKeyboard, InputTypeMouse,
                         InputTypeMouseRelative}
  THEN s.peers[peerID].Role = RoleHost \/ s.peers[peerID].KeyboardEnabled
  ELSE IF inputType = InputTypeGamepad
  THEN s.peers[peerID].Role = RoleHost \/ s.peers[peerID].Role = RolePlayer
  ELSE FALSE

GetPlayerSlot(s, peerID) ==
  IF peerID \notin DOMAIN s.peers THEN -1 ELSE s.peers[peerID].PlayerSlot

InputPacket(type, peerID, slot) ==
  [Type |-> type, PeerID |-> peerID, PlayerSlot |-> slot]

\* select { case s.inputChan <- input: default: }; a send on a closed channel
\* panics
SendInput(s, input) ==
  IF s.closed THEN [s |-> s, panic |-> TRUE]
  ELSE IF Len(s.inputChan) < InputChanCap
  THEN [s |-> [s EXCEPT !.inputChan = Append(@, input)], panic |-> FALSE]
  ELSE [s |-> s, panic |-> FALSE]

SetCancelFunc(s) == [s EXCEPT !.cancelFunc = TRUE]

\* Close: if s.cancelFunc != nil { s.cancelFunc() }; close(s.inputChan);
\* closing a closed channel panics
Close(s) ==
  IF s.closed
  THEN [s |-> [s EXCEPT !.streamCtxDone = @ \/ s.cancelFunc], panic |-> TRUE]
  ELSE [s |-> [s EXCEPT !.streamCtxDone = @ \/ s.cancelFunc,
                        !.closed = TRUE],
        panic |-> FALSE]

\* the contexts a streaming task runs under: the server's s.ctx, or the
\* streamCtx derived from it by context.WithCancel
StreamRunning == {"s.ctx", "streamCtx"}

\* ctx.Done() of the streaming task of s is ready; srvDone: s.ctx is done
StreamCtxDone(s, srvDone) ==
  \/ s.streaming = "s.ctx" /\ srvDone
  \/ s.streaming = "streamCtx" /\ (s.streamCtxDone \/ srvDone)

\* ---------------------------------------------------------------- Manager
\* the Manager's fields; session objects live in sess, indexed by their id
Manager == [sessions |-> sessions, active |-> active, maxPlayers |-> maxPlayers]

\* CreateSession without the m.active != nil test
CreateSession_NoCheck(m, id, hostID) ==
  LET r == AddHost(NewSession(m.maxPlayers), hostID) IN
    IF r.err # ErrNone
    THEN [m |-> m, id |-> NoSession, s |-> r.s, err |-> r.err]
    ELSE [m |-> [m EXCEPT !.sessions = @ \cup {id}, !.active = id],
          id |-> id, s |-> r.s, err |-> ErrNone]

\* CreateSession: id is the new session's id, hostID the new host's id
CreateSession(m, id, hostID) ==
  IF m.active # NoSession
  THEN [m |-> m, id |-> NoSession, s |-> NewSession(m.maxPlayers),
        err |-> ErrActive]
  ELSE LET r == AddHost(NewSession(m.maxPlayers), hostID) IN
    IF r.err # ErrNone
    THEN [m |-> m, id |-> NoSession, s |-> r.s, err |-> r.err]
    ELSE [m |-> [m EXCEPT !.sessions = @ \cup {id}, !.active = id],
          id |-> id, s |-> r.s, err |-> ErrNone]

GetActiveSession(m) == m.active

HasActiveSession(m) == m.active # NoSession

\* CloseSession: closing names the sessions whose Close is called
CloseSession(m, id) ==
  IF id \notin m.sessions
  THEN [m |-> m, closing |-> {}]
  ELSE [m |-> [m EXCEPT !.sessions = @ \ {id},
                        !.active = IF @ # NoSession /\ @ = id
                                   THEN NoSession ELSE @],
        closing |-> {id}]

CloseAll(m) ==
  [m |-> [m EXCEPT !.sessions = {}, !.active = NoSession],
   closing |-> m.sessions]

\* the session objects after Close was called on those in closing
CloseThem(closing) ==
  [i \in DOMAIN sess |-> IF i \in closing THEN Close(sess[i]).s ELSE sess[i]]

ClosePanics(closing) == \E i \in closing : Close(sess[i]).panic

\* ------------------------------------------------------------ video stream
\* the sent stream: frame f is made of PacketsPerFrame packets with
\* consecutive sequence numbers, the last one carrying the end-of-frame bit;
\* odd frames are IDR frames; one more packet, RuntSeq, has a payload shorter
\* than the NV header
Frames == 1..MaxFrames
RuntSeq == MaxFrames * PacketsPerFrame
SeqNums == 0..RuntSeq

FrameOf(q) == q \div PacketsPerFrame + 1

\* the payload of packet q: frame index, little-endian on 4 bytes, then the
\* body, here q % 2 + 1 bytes of value q
Payload(q) ==
  IF q = RuntSeq THEN <<0, 0>>
  ELSE <<FrameOf(q) % 256, (FrameOf(q) \div 256) % 256, 0, 0>>
       \o [i \in 1..((q % 2) + 1) |-> q]

\* parseRTPPacket: the packet with sequence number q as it arrives
RTPPacket(q) ==
  [SequenceNumber |-> q,
   PacketType |->
     (IF q # RuntSeq /\ FrameOf(q) % 2 = 1 THEN PacketTypeIDR ELSE 0)
     + (IF q # RuntSeq /\ q % PacketsPerFrame = PacketsPerFrame - 1
        THEN PacketTypeEOF ELSE 0),
   Payload |-> Payload(q)]

HasBit(byte, bit) == (byte \div bit) % 2 = 1

\* binary.LittleEndian.Uint32(b[0:4])
LittleEndianUint32(b) ==
  b[1] + 256 * b[2] + 256 * 256 * b[3] + 256 * 256 * 256 * b[4]

NoFrame == [FrameNumber |-> 0, FrameType |-> 0, Packets |-> <<>>]

FrameAssembly(frameIndex, frameType) ==
  [FrameNumber |-> frameIndex, FrameType |-> frameType, Packets |-> <<>>]

VideoStats ==
  [ReceivedPackets |-> 0, ReceivedFrames |-> 0, DroppedFrames |-> 0,
   SubmittedFrames |-> 0, RequestedIDRFrames |-> 0]

\* NewStream: the depacketizer does not exist before Start; capabilities is
\* what callbacks.Capabilities() answers, -1 while the stream is not started
\* receiveLoop is "none" before Start, "running", or "returned"; waitingMs is
\* the loop's count of the time it has waited for the first packet
NewStream ==
  [capabilities |-> -1,
   waitingForIDR |-> FALSE,
   currentFrame |-> NoFrame,
   frameQueue |-> <<>>,
   stats |-> VideoStats,
   receivedData |-> FALSE,
   waitingMs |-> 0,
   receiveLoop |-> "none",
   idrHanded |-> FALSE]

\* Start: a depacketizer with an empty queue, waiting for an IDR frame
StartStream(v, caps) ==
  [v EXCEPT !.capabilities = caps,
            !.waitingForIDR = TRUE,
            !.currentFrame = NoFrame,
            !.frameQueue = <<>>,
            !.receiveLoop = "running"]

\* Start runs decoderLoop unless direct submit or pull renderer is set
RunsDecoderLoop(v) == v.capabilities = 0

DirectSubmit(v) == HasBit(v.capabilities, CapabilityDirectSubmit)

BufferDescriptor(pkt) ==
  [Data |-> pkt.Payload, Offset |-> 0, Length |-> Len(pkt.Payload)]

DecodeUnit(frame) ==
  [FrameNumber |-> frame.FrameNumber,
   FrameType |-> frame.FrameType,
   BufferList |-> [i \in 1..Len(frame.Packets) |->
                     BufferDescriptor(frame.Packets[i])]]

\* submitFrame: v is the stream, out the units handed to SubmitDecodeUnit
submitFrame(v, out, frame) ==
  IF frame = NoFrame \/ Len(frame.Packets) = 0
  THEN [v |-> v, out |-> out]
  ELSE IF DirectSubmit(v)
  THEN [v |-> [v EXCEPT !.stats.SubmittedFrames = @ + 1],
        out |-> Append(out, DecodeUnit(frame))]
  ELSE IF Len(v.frameQueue) < FrameQueueCap
  THEN [v |-> [v EXCEPT !.frameQueue = Append(@, DecodeUnit(frame))],
        out |-> out]
  ELSE [v |-> [v EXCEPT !.stats.DroppedFrames = @ + 1], out |-> out]

\* processPacket
processPacket(v, packet) ==
  IF Len(packet.Payload) < NVHeaderLen THEN [v |-> v, out |-> <<>>]
  ELSE
    LET frameIndex == LittleEndianUint32(packet.Payload)
        isIDR == HasBit(packet.PacketType, PacketTypeIDR)
    IN
    IF v.waitingForIDR /\ ~isIDR THEN [v |-> v, out |-> <<>>]
    ELSE
      LET v1 == IF isIDR
                THEN [v EXCEPT !.waitingForIDR = FALSE,
                               !.stats.ReceivedFrames = @ + 1]
                ELSE v
          \* a new frame starts: the previous one is submitted as it is
          starts == v1.currentFrame = NoFrame
                    \/ v1.currentFrame.FrameNumber # frameIndex
          r1 == IF starts
                THEN submitFrame(v1, <<>>, v1.currentFrame)
                ELSE [v |-> v1, out |-> <<>>]
          frame == IF starts
                   THEN FrameAssembly(frameIndex,
                                      IF isIDR THEN FrameTypeIDR
                                      ELSE FrameTypePFrames)
                   ELSE v1.currentFrame
          grown == [frame EXCEPT !.Packets = Append(@, packet)]
      IN IF HasBit(packet.PacketType, PacketTypeEOF)
         THEN LET r2 == submitFrame(r1.v, r1.out, grown) IN
                [v |-> [r2.v EXCEPT !.currentFrame = NoFrame], out |-> r2.out]
         ELSE [v |-> [r1.v EXCEPT !.currentFrame = grown], out |-> r1.out]

\* the stream after these units went to the decode consumer; idrHanded is
\* history: an IDR unit went to the consumer since Start or since the last
\* RequestIDRFrame
HandedOver(v, units) ==
  IF \E i \in DOMAIN units : units[i].FrameType = FrameTypeIDR
  THEN [v EXCEPT !.idrHanded = TRUE] ELSE v

\* RequestIDRFrame
RequestIDRFrame(v) ==
  [v EXCEPT !.waitingForIDR = TRUE,
            !.currentFrame = NoFrame,
            !.idrHanded = FALSE,
            !.stats.RequestedIDRFrames = @ + 1]

\* ----------------------------------------------------- limelight callbacks
\* One call of a ConnectionCallbacks method on the client's Listener
Callback(cb, arg) == [cb |-> cb, arg |-> arg]

\* The client, its listener's record of the current connection attempt, the
\* RTSP requests its rtsp.Client put on the wire, its control stream and
\* the LimelightStream behind the listener, as one value
M ==
  [client |-> limelightClient, listener |-> listener, wire |-> wire,
   control |-> control, limelightStream |-> limelightStream]

\* callbackAdapter: the call reaches the callbacks installed by
\* LimelightStream.setupCallbacks
Listener(m, cb, arg) ==
  [m EXCEPT !.listener = Append(@, Callback(cb, arg)),
            !.limelightStream.connected =
               IF cb = "ConnectionStarted" THEN TRUE
               ELSE IF cb = "ConnectionTerminated" THEN FALSE
               ELSE @]

\* ----------------------------------------------------------- control stream
appVersionAtLeast(v, major, minor, build) ==
  IF v[1] > major THEN TRUE
  ELSE IF v[1] < major THEN FALSE
  ELSE IF v[2] > minor THEN TRUE
  ELSE IF v[2] < minor THEN FALSE
  ELSE v[3] >= build

\* a Stream nobody has constructed yet
NoControlStream ==
  [state |-> "nil", encrypted |-> FALSE, packetTypes |-> "nil",
   intervalGoodCount |-> 0, intervalTotalCount |-> 0,
   intervalStartTime |-> 0, lastConnStatus |-> ConnStatusOkay,
   reads |-> 0, handled |-> <<>>, terminations |-> <<>>, intervals |-> 0,
   stopping |-> FALSE, ctx |-> "nil", conn |-> "nil", loop |-> "none",
   stop |-> "idle"]

\* control.NewStream; reads, handled, terminations and intervals are
\* history: messages read, the seq of every encrypted frame handed to
\* handlePacket, the payload of every Termination message read, and the
\* intervals closed
NewControlStream(appVersion) ==
  LET enc == appVersionAtLeast(appVersion, 7, 1, 431)
  IN [NoControlStream EXCEPT
        !.state = "new",
        !.encrypted = enc,
        !.packetTypes = IF enc THEN "PacketTypesGen7Enc" ELSE "nil"]

\* Stream.Start: the socket, the startup messages, then the two loops
ControlStreamStart(s, ok) ==
  [s EXCEPT !.state = IF ok THEN "running" ELSE "failed",
            !.ctx = "live",
            !.conn = IF ok THEN "open" ELSE "closed",
            !.loop = IF ok THEN "select" ELSE "none"]

\* Stream.Stop, from its first statement to the return of wg.Wait
ControlStreamStop(s) ==
  [s EXCEPT !.state = "stopped", !.stopping = TRUE, !.ctx = "cancelled",
            !.conn = "closed", !.loop = "returned", !.stop = "done"]

BigEndianUint32(b) == ((b[1] * 256 + b[2]) * 256 + b[3]) * 256 + b[4]

LittleEndianUint16(b) == b[1] + 256 * b[2]

\* handlePacket (HDR mode and rumble triggers are not in the messages sent)
handlePacket(m, ptype, payload) ==
  LET s == m.control
      errorCode == IF Len(payload) >= 4 THEN BigEndianUint32(payload)
                   ELSE IF Len(payload) >= 2 THEN LittleEndianUint16(payload)
                   ELSE 0
      m1 == IF /\ s.packetTypes # "nil"
               /\ ptype = PTRumbleData
               /\ Len(payload) >= 10
            THEN Listener(m, "Rumble", 0)
            ELSE m
  IN IF s.packetTypes # "nil" /\ ptype = PTTermination
     THEN Listener(m1, "ConnectionTerminated", errorCode)
     ELSE m1

\* decryptMessage: the header is parsed and the bytes after the tag are
\* returned; seq only goes into the IV
decryptMessage(msg) == [ptype |-> msg.ptype, payload |-> msg.payload]

\* processMessage
processMessage(m, msg) ==
  LET s == m.control
  IN IF s.encrypted
     THEN IF msg.headerType = EncryptedHeaderType
          THEN LET d == decryptMessage(msg)
               IN handlePacket(
                    [m EXCEPT !.control.handled = Append(@, msg.seq)],
                    d.ptype, d.payload)
          ELSE m
     ELSE IF msg.headerType = EncryptedHeaderType
          THEN handlePacket(m, EncryptedHeaderType, <<>>)
          ELSE handlePacket(m, msg.ptype, msg.payload)

\* UpdateFrameStats
UpdateFrameStats(s, isGood) ==
  [s EXCEPT !.intervalTotalCount = @ + 1,
            !.intervalGoodCount = IF isGood THEN @ + 1 ELSE @]

\* checkConnectionStatus without the comparison with lastConnStatus
checkConnectionStatus_EveryInterval(m, elapsed) ==
  LET s == m.control
      lossPercent ==
        100 - ((s.intervalGoodCount * 100) \div s.intervalTotalCount)
      m1 == IF s.intervalTotalCount > 0
            THEN IF lossPercent >= 30
                 THEN Listener(
                        [m EXCEPT !.control.lastConnStatus = ConnStatusPoor],
                        "ConnectionStatusUpdate", ConnStatusPoor)
                 ELSE IF lossPercent <= 5
                 THEN Listener(
                        [m EXCEPT !.control.lastConnStatus = ConnStatusOkay],
                        "ConnectionStatusUpdate", ConnStatusOkay)
                 ELSE m
            ELSE m
  IN IF s.intervalStartTime = 0 \/ elapsed
     THEN [m1 EXCEPT !.control.intervalStartTime = 1,
                     !.control.intervalGoodCount = 0,
                     !.control.intervalTotalCount = 0,
                     !.control.intervals = @ + 1]
     ELSE m

\* checkConnectionStatus; elapsed: now - intervalStartTime >= 3 s
checkConnectionStatus(m, elapsed) ==
  LET s == m.control
      lossPercent ==
        100 - ((s.intervalGoodCount * 100) \div s.intervalTotalCount)
      m1 == IF s.intervalTotalCount > 0
            THEN IF s.lastConnStatus # ConnStatusPoor /\ lossPercent >= 30
                 THEN Listener(
                        [m EXCEPT !.control.lastConnStatus = ConnStatusPoor],
                        "ConnectionStatusUpdate", ConnStatusPoor)
                 ELSE IF lossPercent <= 5 /\ s.lastConnStatus # ConnStatusOkay
                 THEN Listener(
                        [m EXCEPT !.control.lastConnStatus = ConnStatusOkay],
                        "ConnectionStatusUpdate", ConnStatusOkay)
                 ELSE m
            ELSE m
  IN IF s.intervalStartTime = 0 \/ elapsed
     THEN [m1 EXCEPT !.control.intervalStartTime = 1,
                     !.control.intervalGoodCount = 0,
                     !.control.intervalTotalCount = 0,
                     !.control.intervals = @ + 1]
     ELSE m

\* --------------------------------------------------------- limelight Client
\* NewClient
NewClient ==
  [connected |-> FALSE, stage |-> StageNone, ctx |-> "nil",
   appVersion |-> <<0, 0, 0, 0>>, rtspClient |-> "nil",
   controlStream |-> "nil", videoStream |-> "nil", audioStream |-> "nil",
   inputStream |-> "nil"]

notifyStageStarting(m, stage) ==
  Listener([m EXCEPT !.client.stage = stage], "StageStarting", stage)

notifyStageComplete(m, stage) == Listener(m, "StageComplete", stage)

notifyStageFailed(m, stage) == Listener(m, "StageFailed", stage)

\* rtsp.Client.doRequest: the old connection is closed, a new one dialled,
\* the request written and the response read.  outcome "connect": the dial
\* failed; "io": reading the response failed; "status": a status other than
\* 200; "200"
doRequest(m, method, outcome) ==
  IF outcome = "connect"
  THEN [m EXCEPT !.client.rtspClient = "closed"]
  ELSE [m EXCEPT !.client.rtspClient = "open", !.wire = Append(@, method)]

\* cleanup; teardown: the outcome of DoTeardown's request
cleanup(m, teardown) ==
  LET c == m.client
      m1 == [m EXCEPT
               !.client.ctx = IF @ = "nil" THEN @ ELSE "cancelled",
               !.client.inputStream = "nil",
               !.client.audioStream = "nil",
               !.client.videoStream = "nil",
               !.client.controlStream = "nil",
               !.control = IF c.controlStream # "nil"
                           THEN ControlStreamStop(@) ELSE @]
  IN IF c.rtspClient # "nil"
     THEN [doRequest(m1, "TEARDOWN", teardown) EXCEPT
             !.client.rtspClient = "nil"]
     ELSE m1

\* NewClient; pc is the position of Connect, requests the HTTP requests the
\* client made in the order they were made, ret the result of the last
\* Connect with the pairing phase that failed
NewMoonlightClient ==
  [paired |-> FALSE, pairingPIN |-> "", pc |-> "idle", connects |-> 0,
   requests |-> <<>>, ret |-> [err |-> "", phase |-> 0]]

\* a caller that is in no call of the stream; pc is the function whose
\* s.mu.Lock() the caller stands at, from the function that called it
IdleCall == [pc |-> "idle", from |-> "", args |-> <<>>, ret |-> ""]

\* a Stream nobody has constructed yet; calls and sent are the history of
\* the Send calls made and of the packets handed to sendFunc, mu is the
\* caller that holds s.mu (0: unlocked), call the position of each caller
NoInputStream ==
  [initialized |-> FALSE, isSunshine |-> FALSE,
   currentRelMouseState |-> [deltaX |-> 0, deltaY |-> 0, dirty |-> FALSE],
   currentAbsMouseState |-> [x |-> 0, y |-> 0, width |-> 0, height |-> 0,
                             dirty |-> FALSE],
   needsBatchedScroll |-> FALSE, batchedScrollDelta |-> 0,
   mu |-> 0, call |-> [c \in Callers |-> IdleCall],
   calls |-> <<>>, sent |-> <<>>]

\* input.NewStream for a host of version 7.1.431, where scrolls to a host
\* that is not Sunshine are batched
NewInputStream(isSunshine) ==
  [NoInputStream EXCEPT !.initialized = TRUE, !.isSunshine = isSunshine,
                        !.needsBatchedScroll = ~isSunshine]

\* input.NewStream for any host version
NewStreamOfVersion(appVersion, isSunshine) ==
  [NoInputStream EXCEPT
     !.initialized = TRUE, !.isSunshine = isSunshine,
     !.needsBatchedScroll =
        appVersionAtLeast(appVersion, 7, 1, 409) /\ ~isSunshine]

\* an audio Stream nobody has constructed yet.  queue is packetQueue (closed:
\* close(s.packetQueue) was executed); receiveLoop, decoderLoop and stop are
\* the positions of the two goroutines and of Stop; cur is the packet the
\* receive loop holds; frozen: a read timed out after data was received;
\* log is the history of the packets read with what became of each
NoAudioStream ==
  [state |-> "nil", directSubmit |-> FALSE, encrypted |-> FALSE,
   packetDuration |-> 0, packetsToDrop |-> 0, receivedData |-> FALSE,
   ctx |-> "nil", conn |-> "nil", queue |-> <<>>, closed |-> FALSE,
   receiveLoop |-> "none", decoderLoop |-> "none", stop |-> "idle",
   cur |-> 0, frozen |-> FALSE, log |-> <<>>]

\* no Reed-Solomon codec yet.  data are the shards given to Encode, shards
\* and present what Reconstruct is called with; matrices and shard slices
\* count from 0
NoFEC ==
  [state |-> "nil", err |-> "nil",
   gf |-> [exp |-> <<>>, log |-> <<>>, inverse |-> <<>>],
   rs |-> [dataShards |-> 0, parityShards |-> 0, totalShards |-> 0,
           matrix |-> <<>>, parity |-> <<>>],
   data |-> <<>>, shards |-> <<>>, present |-> <<>>]

\* no upstream stream yet.  pc is the position of each goroutine that can
\* call Close; closes counts the close() calls made on a channel
NoUpstream ==
  [state |-> "nil", backend |-> "nil", parent |-> "live", ctx |-> "live",
   conn |-> "nil", producer |-> "none", frameNum |-> 0, nilFrames |-> 0,
   videoFrames |-> [len |-> 0, closes |-> 0],
   audioFrames |-> [len |-> 0, closes |-> 0],
   pc |-> [w \in {"receiveLoop", "task"} |-> "none"]]

\* ------------------------------------------------------------ bookkeeping
NoLoc == [sess |-> NoSession, peer |-> NoPeer, owner |-> FALSE,
          isess |-> NoSession, itype |-> -1, slot |-> -1]

NoRet == [op |-> "", sess |-> NoSession, slot |-> -1, err |-> ErrNone]

Ret(op, s, slot, err) == [op |-> op, sess |-> s, slot |-> slot, err |-> err]

Init ==
  /\ maxPlayers \in {NewManager(cfg) : cfg \in ConfigMaxPlayers}
  /\ sessions = {}
  /\ active = NoSession
  /\ sess = <<>>
  /\ nextPeer = 1
  /\ pc = [t \in Procs |-> "idle"]
  /\ loc = [t \in Procs |-> NoLoc]
  /\ ret = NoRet
  /\ panicked = FALSE
  /\ shutdown = FALSE
  /\ video = NewStream
  /\ decoded = <<>>
  /\ limelightClient = NewClient
  /\ start = [pc |-> "idle", calls |-> 0, ret |-> ""]
  /\ listener = <<>>
  /\ wire = <<>>
  /\ limelightStream = [connected |-> FALSE]
  /\ control = NoControlStream
  /\ rtsp = [state |-> "idle", step |-> 1, rtspSeqNum |-> 0, sent |-> <<>>]
  /\ pairing = NewMoonlightClient
  /\ inputStream = NoInputStream
  /\ audio = NoAudioStream
  /\ fec = NoFEC
  /\ upstream = NoUpstream

\* ------------------------------------------------------- HTTP: /api/session
\* handleStartSession up to the HasActiveSession test
handleStartSession_Check(t) ==
  /\ ~panicked
  /\ ~shutdown
  /\ pc[t] = "idle"
  /\ pc' = [pc EXCEPT ![t] = IF HasActiveSession(Manager) THEN "idle"
                             ELSE "start_create"]
  /\ ret' = NoRet
  /\ UNCHANGED <<commonVars, clientVars, restVars, mediaVars>>
  /\ UNCHANGED <<maxPlayers, sessions, active, sess, nextPeer, loc,
                 panicked, shutdown>>

\* handleStartSession from CreateSession on
handleStartSession_Create(t) ==
  /\ ~panicked
  /\ pc[t] = "start_create"
  /\ HasActiveSession(Manager)
       \/ (Len(sess) < MaxSessions /\ nextPeer <= MaxPeers)
  /\ LET r == CreateSession(Manager, Len(sess) + 1, nextPeer) IN
       /\ sessions' = r.m.sessions
       /\ active' = r.m.active
       /\ sess' = IF r.err = ErrNone THEN Append(sess, r.s) ELSE sess
       /\ nextPeer' = IF r.err = ErrNone THEN nextPeer + 1 ELSE nextPeer
       /\ ret' = Ret("CreateSession", r.id, -1, r.err)
       /\ pc' = [pc EXCEPT ![t] = IF r.err = ErrNone THEN "start_stream"
                                  ELSE "idle"]
       /\ loc' = [loc EXCEPT ![t] = IF r.err = ErrNone
                                    THEN [NoLoc EXCEPT !.sess = r.id]
                                    ELSE NoLoc]
  /\ UNCHANGED <<commonVars, clientVars, restVars, mediaVars>>
  /\ UNCHANGED <<maxPlayers, panicked, shutdown>>

\* handleStartSession from context.WithCancel(s.ctx) on: SetCancelFunc, then
\* go startStreaming(streamCtx, sess)
handleStartSession_Stream(t) ==
  /\ ~panicked
  /\ pc[t] = "start_stream"
  /\ sess' = [sess EXCEPT ![loc[t].sess] =
                 [SetCancelFunc(@) EXCEPT !.streaming = "streamCtx"]]
  /\ pc' = [pc EXCEPT ![t] = "idle"]
  /\ loc' = [loc EXCEPT ![t] = NoLoc]
  /\ ret' = NoRet
  /\ UNCHANGED <<commonVars, clientVars, restVars, mediaVars>>
  /\ UNCHANGED <<maxPlayers, sessions, active, nextPeer, panicked, shutdown>>

\* handleJoinSession
handleJoinSession ==
  /\ ~panicked
  /\ ~shutdown
  /\ GetActiveSession(Manager) # NoSession
  /\ nextPeer <= MaxPeers
  /\ sess' = [sess EXCEPT ![active] = AddSpectator(@, nextPeer).s]
  /\ nextPeer' = nextPeer + 1
  /\ ret' = NoRet
  /\ UNCHANGED <<commonVars, clientVars, restVars, mediaVars>>
  /\ UNCHANGED <<maxPlayers, sessions, active, pc, loc, panicked, shutdown>>

\* handleLeaveSession up to RemovePeer
handleLeaveSession_Remove(t, peerID) ==
  /\ ~panicked
  /\ ~shutdown
  /\ pc[t] = "idle"
  /\ GetActiveSession(Manager) # NoSession
  /\ sess' = [sess EXCEPT ![active] = RemovePeer(@, peerID)]
  /\ pc' = [pc EXCEPT ![t] = "leave_close"]
  /\ loc' = [loc EXCEPT ![t] = [NoLoc EXCEPT !.sess = active,
                                             !.peer = peerID]]
  /\ ret' = NoRet
  /\ UNCHANGED <<commonVars, clientVars, restVars, mediaVars>>
  /\ UNCHANGED <<maxPlayers, sessions, active, nextPeer, panicked, shutdown>>

\* handleLeaveSession from the host test on
handleLeaveSession_Close(t) ==
  /\ ~panicked
  /\ pc[t] = "leave_close"
  /\ LET s == loc[t].sess
         r == IF GetHost(sess[s]) = NoPeer \/ GetHost(sess[s]) = loc[t].peer
              THEN CloseSession(Manager, s)
              ELSE [m |-> Manager, closing |-> {}]
     IN /\ sessions' = r.m.sessions
        /\ active' = r.m.active
        /\ sess' = CloseThem(r.closing)
        /\ panicked' = ClosePanics(r.closing)
  /\ pc' = [pc EXCEPT ![t] = "idle"]
  /\ loc' = [loc EXCEPT ![t] = NoLoc]
  /\ ret' = NoRet
  /\ UNCHANGED <<commonVars, clientVars, restVars, mediaVars>>
  /\ UNCHANGED <<maxPlayers, nextPeer, shutdown>>

\* handlePromotePlayer
handlePromotePlayer(peerID) ==
  /\ ~panicked
  /\ ~shutdown
  /\ GetActiveSession(Manager) # NoSession
  /\ LET r == PromoteToPlayer(sess[active], peerID) IN
       /\ sess' = [sess EXCEPT ![active] = r.s]
       /\ ret' = Ret("PromoteToPlayer", active, r.slot, r.err)
  /\ UNCHANGED <<commonVars, clientVars, restVars, mediaVars>>
  /\ UNCHANGED <<maxPlayers, sessions, active, nextPeer, pc, loc,
                 panicked, shutdown>>

\* handleToggleKeyboard; client is the browser that posts the request (the
\* peer it is in the roster, NoPeer for anyone else): the request body holds
\* peer_id and enabled only, and the handler never looks at its sender
handleToggleKeyboard(client, peerID, enabled) ==
  /\ ~panicked
  /\ ~shutdown
  /\ GetActiveSession(Manager) # NoSession
  /\ sess' = [sess EXCEPT ![active] = SetKeyboardEnabled(@, peerID, enabled)]
  /\ ret' = NoRet
  /\ UNCHANGED <<commonVars, clientVars, restVars, mediaVars>>
  /\ UNCHANGED <<maxPlayers, sessions, active, nextPeer, pc, loc,
                 panicked, shutdown>>

\* Session.DemoteToSpectator, which no handler reaches: a direct call
DemoteToSpectatorCall(s, peerID) ==
  /\ ~panicked
  /\ s \in DOMAIN sess
  /\ LET r == DemoteToSpectator(sess[s], peerID) IN
       /\ sess' = [sess EXCEPT ![s] = r.s]
       /\ ret' = Ret("DemoteToSpectator", s, -1, r.err)
  /\ UNCHANGED <<commonVars, clientVars, restVars, mediaVars>>
  /\ UNCHANGED <<maxPlayers, sessions, active, nextPeer, pc, loc,
                 panicked, shutdown>>

\* ------------------------------------------------------------ WebSocket /ws
\* handleWebSocket up to GetActiveSession
handleWebSocket_Get(t) ==
  /\ ~panicked
  /\ ~shutdown
  /\ pc[t] = "idle"
  /\ pc' = [pc EXCEPT ![t] = IF GetActiveSession(Manager) = NoSession
                             THEN "ws_create" ELSE "ws_join"]
  /\ loc' = [loc EXCEPT ![t] = [NoLoc EXCEPT !.sess = GetActiveSession(Manager)]]
  /\ ret' = NoRet
  /\ UNCHANGED <<commonVars, clientVars, restVars, mediaVars>>
  /\ UNCHANGED <<maxPlayers, sessions, active, sess, nextPeer,
                 panicked, shutdown>>

\* handleWebSocket: no session was active, CreateSession and
\* go startStreaming(s.ctx, sess); on an error the connection is closed
handleWebSocket_Create(t) ==
  /\ ~panicked
  /\ pc[t] = "ws_create"
  /\ HasActiveSession(Manager)
       \/ (Len(sess) < MaxSessions /\ nextPeer <= MaxPeers)
  /\ LET r == CreateSession(Manager, Len(sess) + 1, nextPeer) IN
       /\ sessions' = r.m.sessions
       /\ active' = r.m.active
       /\ sess' = IF r.err = ErrNone
                  THEN Append(sess, [r.s EXCEPT !.streaming = "s.ctx"])
                  ELSE sess
       /\ nextPeer' = IF r.err = ErrNone THEN nextPeer + 1 ELSE nextPeer
       /\ ret' = Ret("CreateSession", r.id, -1, r.err)
       /\ pc' = [pc EXCEPT ![t] = IF r.err = ErrNone THEN "ws_join"
                                  ELSE "idle"]
       /\ loc' = [loc EXCEPT ![t] = IF r.err = ErrNone
                                    THEN [NoLoc EXCEPT !.sess = r.id,
                                                       !.owner = TRUE]
                                    ELSE NoLoc]
  /\ UNCHANGED <<commonVars, clientVars, restVars, mediaVars>>
  /\ UNCHANGED <<maxPlayers, panicked, shutdown>>

\* handleWebSocket from sess.GetHost() on: the connection's peer
handleWebSocket_Join(t) ==
  /\ ~panicked
  /\ pc[t] = "ws_join"
  /\ LET s == loc[t].sess IN
       IF GetHost(sess[s]) # NoPeer
       THEN /\ nextPeer <= MaxPeers
            /\ sess' = [sess EXCEPT ![s] = AddSpectator(@, nextPeer).s]
            /\ nextPeer' = nextPeer + 1
            /\ loc' = [loc EXCEPT ![t].peer = nextPeer]
            /\ pc' = [pc EXCEPT ![t] = "ws_open"]
       ELSE /\ loc' = [loc EXCEPT ![t].peer = GetHost(sess[s])]
            /\ pc' = [pc EXCEPT ![t] = "ws_open"]
            /\ UNCHANGED <<sess, nextPeer>>
  /\ ret' = NoRet
  /\ UNCHANGED <<commonVars, clientVars, restVars, mediaVars>>
  /\ UNCHANGED <<maxPlayers, sessions, active, panicked, shutdown>>

\* handleMessage, WSMsgJoinAsPlayer
readPump_JoinAsPlayer(t) ==
  /\ ~panicked
  /\ pc[t] = "ws_open"
  /\ LET r == PromoteToPlayer(sess[loc[t].sess], loc[t].peer) IN
       /\ sess' = [sess EXCEPT ![loc[t].sess] = r.s]
       /\ ret' = Ret("PromoteToPlayer", loc[t].sess, r.slot, r.err)
  /\ UNCHANGED <<commonVars, clientVars, restVars, mediaVars>>
  /\ UNCHANGED <<maxPlayers, sessions, active, nextPeer, pc, loc,
                 panicked, shutdown>>

\* handleMessage, WSMsgLeave
readPump_Leave(t) ==
  /\ ~panicked
  /\ pc[t] = "ws_open"
  /\ sess' = [sess EXCEPT ![loc[t].sess] = RemovePeer(@, loc[t].peer)]
  /\ ret' = NoRet
  /\ UNCHANGED <<commonVars, clientVars, restVars, mediaVars>>
  /\ UNCHANGED <<maxPlayers, sessions, active, nextPeer, pc, loc,
                 panicked, shutdown>>

\* readPump: ReadMessage fails, the deferred function runs
readPump_Close(t) ==
  /\ ~panicked
  /\ pc[t] = "ws_open"
  /\ sess' = IF GetActiveSession(Manager) # NoSession
             THEN [sess EXCEPT ![active] = RemovePeer(@, loc[t].peer)]
             ELSE sess
  /\ pc' = [pc EXCEPT ![t] = "idle"]
  /\ loc' = [loc EXCEPT ![t] = NoLoc]
  /\ ret' = NoRet
  /\ UNCHANGED <<commonVars, clientVars, restVars, mediaVars>>
  /\ UNCHANGED <<maxPlayers, sessions, active, nextPeer, panicked, shutdown>>

\* -------------------------------------------------------------- input path
\* the switch of handlePeerInput; -1 stands for its default branch
InputTypeOf(name) ==
  CASE name = "keyboard" -> InputTypeKeyboard
    [] name = "mouse" -> InputTypeMouse
    [] name = "mouse_rel" -> InputTypeMouseRelative
    [] name \in {"gamepad", "input"} -> InputTypeGamepad
    [] OTHER -> -1

\* handlePeerInput up to CanSendInput
handlePeerInput_Check(t, name) ==
  /\ ~panicked
  /\ pc[t] = "ws_open"
  /\ LET s == GetActiveSession(Manager) IN
       IF s # NoSession /\ InputTypeOf(name) # -1
          /\ CanSendInput(sess[s], loc[t].peer, InputTypeOf(name))
       THEN /\ pc' = [pc EXCEPT ![t] = "input_slot"]
            /\ loc' = [loc EXCEPT ![t].isess = s,
                                  ![t].itype = InputTypeOf(name)]
       ELSE UNCHANGED <<pc, loc>>
  /\ ret' = NoRet
  /\ UNCHANGED <<commonVars, clientVars, restVars, mediaVars>>
  /\ UNCHANGED <<maxPlayers, sessions, active, sess, nextPeer,
                 panicked, shutdown>>

\* handlePeerInput, GetPlayerSlot
handlePeerInput_Slot(t) ==
  /\ ~panicked
  /\ pc[t] = "input_slot"
  /\ LET slot == GetPlayerSlot(sess[loc[t].isess], loc[t].peer) IN
       IF slot < 0
       THEN /\ pc' = [pc EXCEPT ![t] = "ws_open"]
            /\ loc' = [loc EXCEPT ![t].isess = NoSession, ![t].itype = -1]
       ELSE /\ pc' = [pc EXCEPT ![t] = "input_send"]
            /\ loc' = [loc EXCEPT ![t].slot = slot]
  /\ ret' = NoRet
  /\ UNCHANGED <<commonVars, clientVars, restVars, mediaVars>>
  /\ UNCHANGED <<maxPlayers, sessions, active, sess, nextPeer,
                 panicked, shutdown>>

\* handlePeerInput, SendInput
handlePeerInput_Send(t) ==
  /\ ~panicked
  /\ pc[t] = "input_send"
  /\ LET r == SendInput(sess[loc[t].isess],
                        InputPacket(loc[t].itype, loc[t].peer, loc[t].slot))
     IN /\ sess' = [sess EXCEPT ![loc[t].isess] = r.s]
        /\ panicked' = r.panic
  /\ pc' = [pc EXCEPT ![t] = "ws_open"]
  /\ loc' = [loc EXCEPT ![t].isess = NoSession, ![t].itype = -1,
                        ![t].slot = -1]
  /\ ret' = NoRet
  /\ UNCHANGED <<commonVars, clientVars, restVars, mediaVars>>
  /\ UNCHANGED <<maxPlayers, sessions, active, nextPeer, shutdown>>

\* startStreaming: case input := <-sess.InputChannel()
ForwardInput(s) ==
  /\ ~panicked
  /\ s \in DOMAIN sess
  /\ sess[s].streaming \in StreamRunning
  /\ sess[s].inputChan # <<>>
  /\ sess' = [sess EXCEPT ![s].inputChan = Tail(@)]
  /\ ret' = NoRet
  /\ UNCHANGED <<commonVars, clientVars, restVars, mediaVars>>
  /\ UNCHANGED <<maxPlayers, sessions, active, nextPeer, pc, loc,
                 panicked, shutdown>>

\* startStreaming: StartStream returns an error, the task returns
startStreaming_Fail(s) ==
  /\ ~panicked
  /\ s \in DOMAIN sess
  /\ sess[s].streaming \in StreamRunning
  /\ sess' = [sess EXCEPT ![s].streaming = "returned"]
  /\ ret' = NoRet
  /\ UNCHANGED <<commonVars, clientVars, restVars, mediaVars>>
  /\ UNCHANGED <<maxPlayers, sessions, active, nextPeer, pc, loc,
                 panicked, shutdown>>

\* startStreaming: case <-ctx.Done(), the task returns
startStreaming_Done(s) ==
  /\ ~panicked
  /\ s \in DOMAIN sess
  /\ StreamCtxDone(sess[s], shutdown)
  /\ sess' = [sess EXCEPT ![s].streaming = "returned"]
  /\ ret' = NoRet
  /\ UNCHANGED <<commonVars, clientVars, restVars, mediaVars>>
  /\ UNCHANGED <<maxPlayers, sessions, active, nextPeer, pc, loc,
                 panicked, shutdown>>

\* Server.Shutdown: s.cancel(), no new request is accepted, CloseAll
Shutdown ==
  /\ ~panicked
  /\ ~shutdown
  /\ shutdown' = TRUE
  /\ LET r == CloseAll(Manager) IN
       /\ sessions' = r.m.sessions
       /\ active' = r.m.active
       /\ sess' = CloseThem(r.closing)
       /\ panicked' = ClosePanics(r.closing)
  /\ ret' = NoRet
  /\ UNCHANGED <<commonVars, clientVars, restVars, mediaVars>>
  /\ UNCHANGED <<maxPlayers, nextPeer, pc, loc>>

\* the handlers that act on the manager and the roster
Next ==
  \/ \E t \in Reqs : handleStartSession_Check(t)
  \/ \E t \in Reqs : handleStartSession_Create(t)
  \/ \E t \in Reqs : handleStartSession_Stream(t)
  \/ handleJoinSession
  \/ \E t \in Reqs, p \in PeerIds : handleLeaveSession_Remove(t, p)
  \/ \E t \in Reqs : handleLeaveSession_Close(t)
  \/ \E p \in PeerIds : handlePromotePlayer(p)
  \/ \E c \in PeerIds \cup {NoPeer}, p \in PeerIds, en \in BOOLEAN :
       handleToggleKeyboard(c, p, en)
  \/ \E s \in SessionIds, p \in PeerIds : DemoteToSpectatorCall(s, p)
  \/ \E t \in Conns : handleWebSocket_Get(t)
  \/ \E t \in Conns : handleWebSocket_Create(t)
  \/ \E t \in Conns : handleWebSocket_Join(t)
  \/ \E t \in Conns : readPump_JoinAsPlayer(t)
  \/ \E t \in Conns : readPump_Leave(t)
  \/ \E t \in Conns : readPump_Close(t)
  \/ Shutdown

Spec == Init /\ [][Next]_vars

\* the same with the input path: handlePeerInput and the streaming task's
\* receive from the input channel
NextInput ==
  \/ Next
  \/ \E t \in Conns, n \in InputTypeNames : handlePeerInput_Check(t, n)
  \/ \E t \in Conns : handlePeerInput_Slot(t)
  \/ \E t \in Conns : handlePeerInput_Send(t)
  \/ \E s \in SessionIds : ForwardInput(s)

\* the server under DefaultConfig, MaxPlayers: 4
InitInput == Init /\ maxPlayers = NewManager(DefaultMaxPlayers)

SpecInput == InitInput /\ [][NextInput]_vars

\* the life of a session and of its streaming task: creation by either entry
\* point, the leave and close paths, shutdown, and the task's return
NextStream ==
  \/ \E t \in Reqs : handleStartSession_Check(t)
  \/ \E t \in Reqs : handleStartSession_Create(t)
  \/ \E t \in Reqs : handleStartSession_Stream(t)
  \/ handleJoinSession
  \/ \E t \in Reqs, p \in PeerIds : handleLeaveSession_Remove(t, p)
  \/ \E t \in Reqs : handleLeaveSession_Close(t)
  \/ \E t \in Conns : handleWebSocket_Get(t)
  \/ \E t \in Conns : handleWebSocket_Create(t)
  \/ \E t \in Conns : handleWebSocket_Join(t)
  \/ \E t \in Conns : readPump_Close(t)
  \/ \E s \in SessionIds : startStreaming_Fail(s)
  \/ \E s \in SessionIds : startStreaming_Done(s)
  \/ Shutdown

\* a select whose ctx.Done() case stays ready takes it eventually
SpecStream ==
  /\ InitInput
  /\ [][NextStream]_vars
  /\ \A s \in SessionIds : WF_vars(startStreaming_Done(s))

\* ------------------------------------------------------ video stream tasks
\* Stream.Start with the capabilities of the decoder callbacks
Start(caps) ==
  /\ video.capabilities = -1
  /\ video' = StartStream(video, caps)
  /\ UNCHANGED decoded
  /\ UNCHANGED <<serverVars, clientVars, restVars, mediaVars>>

\* receiveLoop: one packet is read, parsed, counted and processed.  The
\* loop never looks at waitingMs again once receivedData is set, so the
\* count is dropped here.
receiveLoop(q) ==
  /\ video.capabilities # -1
  /\ video.receiveLoop = "running"
  /\ video.stats.ReceivedPackets < MaxPackets
  /\ LET r == processPacket(
                [video EXCEPT !.stats.ReceivedPackets = @ + 1,
                              !.receivedData = TRUE,
                              !.waitingMs = 0], RTPPacket(q))
     IN /\ video' = HandedOver(r.v, r.out)
        /\ decoded' = decoded \o r.out
  /\ UNCHANGED <<serverVars, clientVars, restVars, mediaVars>>

\* receiveLoop: the read timed out after UDPRecvPollTimeout; before the
\* first packet the wait is counted and at FirstFrameTimeoutSec the loop
\* returns
receiveLoop_Timeout ==
  /\ video.capabilities # -1
  /\ video.receiveLoop = "running"
  /\ ~video.receivedData
  /\ LET waitingMs == video.waitingMs + UDPRecvPollTimeoutMs
     IN video' = [video EXCEPT
                    !.waitingMs = waitingMs,
                    !.receiveLoop =
                       IF waitingMs >= FirstFrameTimeoutSec * 1000
                       THEN "returned" ELSE @]
  /\ UNCHANGED decoded
  /\ UNCHANGED <<serverVars, clientVars, restVars, mediaVars>>

\* decoderLoop: case unit := <-s.depacketizer.frameQueue
decoderLoop ==
  /\ video.capabilities # -1
  /\ RunsDecoderLoop(video)
  /\ video.frameQueue # <<>>
  /\ video' = HandedOver([video EXCEPT !.frameQueue = Tail(@),
                                       !.stats.SubmittedFrames = @ + 1],
                         <<Head(video.frameQueue)>>)
  /\ decoded' = Append(decoded, Head(video.frameQueue))
  /\ UNCHANGED <<serverVars, clientVars, restVars, mediaVars>>

\* WaitForNextFrame, called by a pull renderer
WaitForNextFrame ==
  /\ video.capabilities # -1
  /\ HasBit(video.capabilities, CapabilityPullRenderer)
  /\ video.frameQueue # <<>>
  /\ video' = HandedOver([video EXCEPT !.frameQueue = Tail(@)],
                         <<Head(video.frameQueue)>>)
  /\ decoded' = Append(decoded, Head(video.frameQueue))
  /\ UNCHANGED <<serverVars, clientVars, restVars, mediaVars>>

\* RequestIDRFrame, called from another task
RequestIDRFrameCall ==
  /\ video.capabilities # -1
  /\ video.stats.RequestedIDRFrames < MaxIDRRequests
  /\ video' = RequestIDRFrame(video)
  /\ UNCHANGED decoded
  /\ UNCHANGED <<serverVars, clientVars, restVars, mediaVars>>

NextVideo ==
  \/ \E caps \in Capabilities : Start(caps)
  \/ \E q \in SeqNums : receiveLoop(q)
  \/ receiveLoop_Timeout
  \/ decoderLoop
  \/ WaitForNextFrame
  \/ RequestIDRFrameCall

SpecVideo == InitInput /\ [][NextVideo]_vars

\* ------------------------------------------------------- Client.Start, Stop
Commit(m) ==
  /\ limelightClient' = m.client
  /\ listener' = m.listener
  /\ wire' = m.wire
  /\ control' = m.control
  /\ limelightStream' = m.limelightStream

\* Start returns
StartReturns(err) == start' = [start EXCEPT !.pc = "idle", !.ret = err]

\* Start up to the call of doRTSPHandshake, with rtsp.NewClient.  The
\* listener's record starts afresh with the attempt.
ClientStart(resolved, appVersion) ==
  /\ start.pc = "idle"
  /\ start.calls < MaxStarts
  /\ IF limelightClient.connected
     THEN /\ start' = [start EXCEPT !.calls = @ + 1,
                                    !.ret = "already connected"]
          /\ UNCHANGED <<limelightClient, listener, wire, control, limelightStream>>
     ELSE IF ~resolved
     THEN /\ start' = [start EXCEPT !.calls = @ + 1,
                                    !.ret = "failed to resolve host"]
          /\ Commit([M EXCEPT !.client.ctx = "live", !.listener = <<>>])
     ELSE LET m0 == [M EXCEPT !.client.ctx = "live",
                              !.client.appVersion = appVersion,
                              !.listener = <<>>]
              m1 == notifyStageStarting(m0, StagePlatformInit)
              m2 == notifyStageComplete(m1, StagePlatformInit)
              m3 == notifyStageStarting(m2, StageRTSPHandshake)
          IN /\ Commit([m3 EXCEPT !.client.rtspClient = "closed",
                                  !.wire = <<>>])
             /\ start' = [pc |-> "rtsp_connect", calls |-> start.calls + 1,
                          ret |-> ""]
  /\ UNCHANGED <<serverVars, commonVars, restVars, mediaVars>>

\* doRTSPHandshake failed: StageFailed, and Start returns the error
RTSPHandshakeFailed(m) ==
  /\ Commit(notifyStageFailed(m, StageRTSPHandshake))
  /\ StartReturns("rtsp")

\* doRTSPHandshake: c.rtspClient.Connect()
doRTSPHandshake_Connect(ok) ==
  /\ start.pc = "rtsp_connect"
  /\ IF ok
     THEN /\ Commit([M EXCEPT !.client.rtspClient = "open"])
          /\ start' = [start EXCEPT !.pc = "rtsp_request"]
     ELSE RTSPHandshakeFailed(M)
  /\ UNCHANGED <<serverVars, commonVars, restVars, mediaVars>>

\* doRTSPHandshake: the next of DoAnnounce, DoDescribe, DoSetup's three
\* requests and DoPlay; after the last, StageComplete
doRTSPHandshake_Request(outcome) ==
  /\ start.pc = "rtsp_request"
  /\ LET n == Len(wire) + 1
         m1 == doRequest(M, doRTSPHandshakeRequests[n], outcome)
     IN IF outcome # "200"
        THEN RTSPHandshakeFailed(m1)
        ELSE IF n < Len(doRTSPHandshakeRequests)
        THEN Commit(m1) /\ UNCHANGED start
        ELSE /\ Commit(notifyStageComplete(m1, StageRTSPHandshake))
             /\ start' = [start EXCEPT !.pc = "control_init"]
  /\ UNCHANGED <<serverVars, commonVars, restVars, mediaVars>>

\* a Start that reports the failure of a stream's init stage and goes on
StageEnds_GoesOn(m, stage, ok, next, teardown) ==
  /\ Commit(IF ok THEN notifyStageComplete(m, stage)
            ELSE notifyStageFailed(m, stage))
  /\ start' = [start EXCEPT !.pc = next]

\* a stream's init stage ended: Complete and on to the next stage, or
\* Failed, cleanup and the return of the error
StageEnds(m, stage, ok, next, teardown) ==
  IF ok
  THEN /\ Commit(notifyStageComplete(m, stage))
       /\ start' = [start EXCEPT !.pc = next]
  ELSE /\ Commit(cleanup(notifyStageFailed(m, stage), teardown))
       /\ StartReturns("init")

\* stage ControlStreamInit with initControlStream
ClientStart_ControlInit(ok, teardown) ==
  /\ start.pc = "control_init"
  /\ LET m1 == notifyStageStarting(M, StageControlStreamInit)
         m2 == [m1 EXCEPT
                  !.client.controlStream = "set",
                  !.control = ControlStreamStart(
                                NewControlStream(limelightClient.appVersion), ok)]
     IN StageEnds(m2, StageControlStreamInit, ok, "video_init", teardown)
  /\ UNCHANGED <<serverVars, commonVars, restVars, mediaVars>>

\* stage VideoStreamInit with initVideoStream
ClientStart_VideoInit(ok, teardown) ==
  /\ start.pc = "video_init"
  /\ LET m1 == notifyStageStarting(M, StageVideoStreamInit)
         m2 == [m1 EXCEPT !.client.videoStream =
                             IF ok THEN "running" ELSE "failed"]
     IN StageEnds(m2, StageVideoStreamInit, ok, "audio_init", teardown)
  /\ UNCHANGED <<serverVars, commonVars, restVars, mediaVars>>

\* stage AudioStreamInit with initAudioStream
ClientStart_AudioInit(ok, teardown) ==
  /\ start.pc = "audio_init"
  /\ LET m1 == notifyStageStarting(M, StageAudioStreamInit)
         m2 == [m1 EXCEPT !.client.audioStream =
                             IF ok THEN "running" ELSE "failed"]
     IN StageEnds(m2, StageAudioStreamInit, ok, "input_init", teardown)
  /\ UNCHANGED <<serverVars, commonVars, restVars, mediaVars>>

RECURSIVE notifyStages(_, _)
\* Starting and Complete of each stage of a list, in order
notifyStages(m, stages) ==
  IF stages = <<>> THEN m
  ELSE notifyStages(
         notifyStageComplete(notifyStageStarting(m, Head(stages)),
                             Head(stages)),
         Tail(stages))

\* stage InputStreamInit with initInputStream, which cannot fail, the four
\* Start stages, and the completion
ClientStart_Complete ==
  /\ start.pc = "input_init"
  /\ LET m1 == notifyStageStarting(M, StageInputStreamInit)
         m2 == notifyStageComplete(
                 [m1 EXCEPT !.client.inputStream = "running"],
                 StageInputStreamInit)
         m3 == notifyStages(m2, <<StageControlStreamStart,
                                  StageVideoStreamStart,
                                  StageAudioStreamStart,
                                  StageInputStreamStart>>)
         m4 == [m3 EXCEPT !.client.stage = StageComplete,
                          !.client.connected = TRUE]
     IN Commit(Listener(m4, "ConnectionStarted", 0))
  /\ StartReturns("nil")
  /\ UNCHANGED <<serverVars, commonVars, restVars, mediaVars>>

\* Stop
ClientStop(teardown) ==
  /\ start.pc = "idle"
  /\ limelightClient.connected
  /\ Commit([cleanup(M, teardown) EXCEPT !.client.connected = FALSE])
  /\ UNCHANGED start
  /\ UNCHANGED <<serverVars, commonVars, restVars, mediaVars>>

\* ------------------------------------------------------ control stream tasks
\* Stream.Start on a stream of its own
ControlStart(appVersion) ==
  /\ control.state = "nil"
  /\ control' = ControlStreamStart(NewControlStream(appVersion), TRUE)
  /\ UNCHANGED <<limelightClient, start, listener, wire, limelightStream>>
  /\ UNCHANGED <<serverVars, commonVars, restVars, mediaVars>>

\* a message is a Termination message in the format the stream reads
IsTermination(s, msg) ==
  /\ msg.ptype = PTTermination
  /\ msg.headerType = IF s.encrypted THEN EncryptedHeaderType ELSE 0

\* receiveLoop: one message is read and processed
controlReceiveLoop(msg) ==
  /\ control.state = "running"
  /\ control.reads < MaxControlReads
  /\ LET m1 == [M EXCEPT
                  !.control.reads = @ + 1,
                  !.control.terminations =
                     IF IsTermination(control, msg)
                     THEN Append(@, msg.payload) ELSE @]
     IN Commit(processMessage(m1, msg))
  /\ UNCHANGED start
  /\ UNCHANGED <<serverVars, commonVars, restVars, mediaVars>>

\* UpdateFrameStats, called by the owner of the stream
UpdateFrameStatsCall(isGood) ==
  /\ control.state = "running"
  /\ control.intervalTotalCount < MaxStatFrames
  /\ control' = UpdateFrameStats(control, isGood)
  /\ UNCHANGED <<limelightClient, start, listener, wire, limelightStream>>
  /\ UNCHANGED <<serverVars, commonVars, restVars, mediaVars>>

\* lossStatsLoop: one tick of the ticker
lossStatsLoop(elapsed) ==
  /\ control.state = "running"
  /\ control.intervals < MaxIntervals
  /\ Commit(checkConnectionStatus(M, elapsed))
  /\ UNCHANGED start
  /\ UNCHANGED <<serverVars, commonVars, restVars, mediaVars>>

\* Stream.Stop on a stream of its own
ControlStop ==
  /\ control.state = "running"
  /\ limelightClient.controlStream = "nil"
  /\ control' = ControlStreamStop(control)
  /\ UNCHANGED <<limelightClient, start, listener, wire, limelightStream>>
  /\ UNCHANGED <<serverVars, commonVars, restVars, mediaVars>>

\* --------------------------------------- internal/moonlight: RTSP handshake
\* performRTSPHandshake begins
performRTSPHandshake ==
  /\ rtsp.state = "idle"
  /\ rtsp' = [rtsp EXCEPT !.state = "running", !.rtspSeqNum = 1]
  /\ UNCHANGED <<limelightClient, start, listener, wire, limelightStream, control>>
  /\ UNCHANGED <<serverVars, commonVars, pairing, inputStream, mediaVars>>

\* the next of rtspOptions, rtspDescribe, rtspSetup (three times),
\* rtspAnnounce and rtspPlay, each through rtspSendRequest
rtspSendRequest(outcome) ==
  /\ rtsp.state = "running"
  /\ LET n == rtsp.step
         sent == IF outcome = "connect" THEN rtsp.sent
                 ELSE Append(rtsp.sent, performRTSPHandshakeRequests[n])
         seqNum == IF outcome = "connect" THEN rtsp.rtspSeqNum
                   ELSE rtsp.rtspSeqNum + 1
     IN rtsp' = [state |-> IF outcome # "200" THEN "failed"
                           ELSE IF n = Len(performRTSPHandshakeRequests)
                           THEN "done" ELSE "running",
                 step |-> IF outcome = "200" THEN n + 1 ELSE n,
                 rtspSeqNum |-> seqNum,
                 sent |-> sent]
  /\ UNCHANGED <<limelightClient, start, listener, wire, limelightStream, control>>
  /\ UNCHANGED <<serverVars, commonVars, pairing, inputStream, mediaVars>>

NextClient ==
  \/ \E r \in BOOLEAN, v \in AppVersions : ClientStart(r, v)
  \/ \E ok \in BOOLEAN : doRTSPHandshake_Connect(ok)
  \/ \E o \in Outcomes : doRTSPHandshake_Request(o)
  \/ \E ok \in BOOLEAN, td \in Outcomes : ClientStart_ControlInit(ok, td)
  \/ \E ok \in BOOLEAN, td \in Outcomes : ClientStart_VideoInit(ok, td)
  \/ \E ok \in BOOLEAN, td \in Outcomes : ClientStart_AudioInit(ok, td)
  \/ ClientStart_Complete
  \/ \E td \in Outcomes : ClientStop(td)
  \/ \E msg \in ControlMessages : controlReceiveLoop(msg)
  \/ \E e \in BOOLEAN : lossStatsLoop(e)

\* a Start that was called runs on to its return
StartRuns ==
  \/ \E ok \in BOOLEAN : doRTSPHandshake_Connect(ok)
  \/ \E o \in Outcomes : doRTSPHandshake_Request(o)
  \/ \E ok \in BOOLEAN, td \in Outcomes : ClientStart_ControlInit(ok, td)
  \/ \E ok \in BOOLEAN, td \in Outcomes : ClientStart_VideoInit(ok, td)
  \/ \E ok \in BOOLEAN, td \in Outcomes : ClientStart_AudioInit(ok, td)
  \/ ClientStart_Complete

\* a Start in progress, and the receive loop and the ticker loop of a
\* running control stream, keep running; nothing obliges the owner to call
\* Start or Stop
SpecClient ==
  /\ InitInput
  /\ [][NextClient]_vars
  /\ WF_vars(StartRuns)
  /\ WF_vars(\E msg \in ControlMessages : controlReceiveLoop(msg))
  /\ WF_vars(\E e \in BOOLEAN : lossStatsLoop(e))

NextRTSP ==
  \/ \E r \in BOOLEAN, v \in AppVersions : ClientStart(r, v)
  \/ \E ok \in BOOLEAN : doRTSPHandshake_Connect(ok)
  \/ \E o \in Outcomes : doRTSPHandshake_Request(o)
  \/ performRTSPHandshake
  \/ \E o \in Outcomes : rtspSendRequest(o)

SpecRTSP == InitInput /\ [][NextRTSP]_vars

NextControl ==
  \/ \E v \in AppVersions : ControlStart(v)
  \/ \E msg \in ControlMessages : controlReceiveLoop(msg)
  \/ \E g \in BOOLEAN : UpdateFrameStatsCall(g)
  \/ \E e \in BOOLEAN : lossStatsLoop(e)
  \/ ControlStop

SpecControl == InitInput /\ [][NextControl]_vars

\* ------------------------------- control stream: Stop and the receive loop
\* receiveLoop, the select at the head of the loop: a cancelled context
\* ends the loop, otherwise the loop goes on to read
controlReceiveLoop_Select ==
  /\ control.state = "running"
  /\ control.loop = "select"
  /\ control' = [control EXCEPT
                   !.loop = IF control.ctx = "cancelled" THEN "returned"
                            ELSE "read"]
  /\ UNCHANGED <<limelightClient, start, listener, wire, limelightStream>>
  /\ UNCHANGED <<serverVars, commonVars, restVars, mediaVars>>

\* receiveLoop, s.conn.Read returns a message, which is processed
controlReceiveLoop_Read(msg) ==
  /\ control.state = "running"
  /\ control.loop = "read"
  /\ control.conn = "open"
  /\ control.reads < MaxControlReads
  /\ LET m1 == [M EXCEPT
                  !.control.loop = "select",
                  !.control.reads = @ + 1,
                  !.control.terminations =
                     IF IsTermination(control, msg)
                     THEN Append(@, msg.payload) ELSE @]
     IN Commit(processMessage(m1, msg))
  /\ UNCHANGED start
  /\ UNCHANGED <<serverVars, commonVars, restVars, mediaVars>>

\* receiveLoop, s.conn.Read returns an error that is no timeout: the
\* connection failed, or the socket was closed under the read.  The socket
\* of a Gen5+ host is a UDP socket and gets no read deadline
controlReceiveLoop_ReadError ==
  /\ control.state = "running"
  /\ control.loop = "read"
  /\ Commit(Listener([M EXCEPT !.control.loop = "returned"],
                     "ConnectionTerminated", -1))
  /\ UNCHANGED start
  /\ UNCHANGED <<serverVars, commonVars, restVars, mediaVars>>

\* Stop: s.stopping = true and s.cancel()
ControlStop_Cancel ==
  /\ control.state = "running"
  /\ control.stop = "idle"
  /\ control' = [control EXCEPT !.stopping = TRUE, !.ctx = "cancelled",
                                !.stop = "conn"]
  /\ UNCHANGED <<limelightClient, start, listener, wire, limelightStream>>
  /\ UNCHANGED <<serverVars, commonVars, restVars, mediaVars>>

\* Stop: s.conn.Close()
ControlStop_ConnClose ==
  /\ control.stop = "conn"
  /\ control' = [control EXCEPT !.conn = "closed", !.stop = "wait"]
  /\ UNCHANGED <<limelightClient, start, listener, wire, limelightStream>>
  /\ UNCHANGED <<serverVars, commonVars, restVars, mediaVars>>

\* Stop: s.wg.Wait() returns when the loops have returned
ControlStop_Wait ==
  /\ control.stop = "wait"
  /\ control.loop = "returned"
  /\ control' = [control EXCEPT !.state = "stopped", !.stop = "done"]
  /\ UNCHANGED <<limelightClient, start, listener, wire, limelightStream>>
  /\ UNCHANGED <<serverVars, commonVars, restVars, mediaVars>>

NextControlStop ==
  \/ \E v \in AppVersions : ControlStart(v)
  \/ controlReceiveLoop_Select
  \/ \E msg \in ControlMessages : controlReceiveLoop_Read(msg)
  \/ controlReceiveLoop_ReadError
  \/ ControlStop_Cancel
  \/ ControlStop_ConnClose
  \/ ControlStop_Wait

SpecControlStop == InitInput /\ [][NextControlStop]_vars

\* ------------------------------------- internal/moonlight: Connect, pairing
\* Connect returns
ConnectReturns(p, err, phase) ==
  [p EXCEPT !.pc = "idle", !.ret = [err |-> err, phase |-> phase]]

\* Connect up to the call of StartPairing: loadOrGenerateIdentity,
\* testConnectivity, checkPaired, and for a client that is not paired Unpair
\* and the PIN
Connect(identity, reachable, pairStatus) ==
  /\ pairing.pc = "idle"
  /\ pairing.connects < MaxConnects
  /\ LET p0 == [pairing EXCEPT !.connects = @ + 1,
                               !.ret = [err |-> "", phase |-> 0]]
         p1 == [p0 EXCEPT !.requests = Append(@, "serverinfo")]
         p2 == [p1 EXCEPT !.requests = Append(@, "serverinfo?uniqueid"),
                          !.paired = pairStatus]
     IN pairing' =
          IF ~identity THEN ConnectReturns(p0, "identity error", 0)
          ELSE IF ~reachable
          THEN ConnectReturns(p1, "connectivity test failed", 0)
          ELSE IF pairStatus THEN ConnectReturns(p2, "nil", 0)
          ELSE [p2 EXCEPT !.requests = Append(@, "unpair"),
                          !.pairingPIN = "pin",
                          !.pc = "getservercert"]
  /\ UNCHANGED <<serverVars, commonVars, clientVars, rtsp, inputStream, mediaVars>>

\* one phase of the pairing: the /pair request with the phase's parameter
\* and the reading of the answer.  outcome "local": the phase failed before
\* its request; "io": the request failed; "rejected": the host said no;
\* "answer": the answer could not be decoded; "ok"
PairingPhase(p, phase, request, outcome, next) ==
  LET p1 == IF outcome = "local" THEN p
            ELSE [p EXCEPT !.requests = Append(@, request)]
  IN IF outcome # "ok" THEN ConnectReturns(p1, "pairing error", phase)
     ELSE IF next = "idle"
     THEN ConnectReturns([p1 EXCEPT !.paired = TRUE], "nil", 0)
     ELSE [p1 EXCEPT !.pc = next]

\* StartPairing, phase 1
pairGetServerCert(outcome) ==
  /\ pairing.pc = "getservercert"
  /\ pairing' = PairingPhase(pairing, 1, "pair?phrase=getservercert",
                             outcome, "clientchallenge")
  /\ UNCHANGED <<serverVars, commonVars, clientVars, rtsp, inputStream, mediaVars>>

\* phase 2
pairChallenge(outcome) ==
  /\ pairing.pc = "clientchallenge"
  /\ pairing' = PairingPhase(pairing, 2, "pair?clientchallenge", outcome,
                             "serverchallengeresp")
  /\ UNCHANGED <<serverVars, commonVars, clientVars, rtsp, inputStream, mediaVars>>

\* phase 3
pairServerChallengeResponse(outcome) ==
  /\ pairing.pc = "serverchallengeresp"
  /\ pairing' = PairingPhase(pairing, 3, "pair?serverchallengeresp",
                             outcome, "clientpairingsecret")
  /\ UNCHANGED <<serverVars, commonVars, clientVars, rtsp, inputStream, mediaVars>>

\* phase 4; after it Connect sets paired and returns
pairClientSecret(outcome) ==
  /\ pairing.pc = "clientpairingsecret"
  /\ pairing' = PairingPhase(pairing, 4, "pair?clientpairingsecret",
                             outcome, "idle")
  /\ UNCHANGED <<serverVars, commonVars, clientVars, rtsp, inputStream, mediaVars>>

NextPairing ==
  \/ \E id \in BOOLEAN, re \in BOOLEAN, ps \in BOOLEAN : Connect(id, re, ps)
  \/ \E o \in PairOutcomes : pairGetServerCert(o)
  \/ \E o \in PairOutcomes : pairChallenge(o)
  \/ \E o \in PairOutcomes : pairServerChallengeResponse(o)
  \/ \E o \in PairOutcomes : pairClientSecret(o)

SpecPairing == InitInput /\ [][NextPairing]_vars

\* ------------------------------------------------------------- input stream
\* uint16(v) of an int16
Uint16(v) == (v + 65536) % 65536

\* s.sendFunc(channelID, ENetPacketFlagReliable, packet, false)
sendFunc(s, channelID, packet) ==
  [s EXCEPT !.sent = Append(@, [channelID |-> channelID, packet |-> packet])]

buildRelMouseMovePacket(deltaX, deltaY) ==
  [magic |-> MouseMoveRelMagicGen5, deltaX |-> Uint16(deltaX),
   deltaY |-> Uint16(deltaY)]

buildAbsMouseMovePacket(x, y, width, height) ==
  [magic |-> MouseMoveAbsMagic, x |-> Uint16(x), y |-> Uint16(y),
   width |-> Uint16(width - 1), height |-> Uint16(height - 1)]

buildMultiControllerPacket(s, controllerNumber, activeGamepadMask, buttonFlags, leftStickX) ==
  [magic |-> MultiControllerMagicGen5,
   controllerNumber |-> Uint16(controllerNumber),
   activeGamepadMask |-> Uint16(activeGamepadMask),
   buttonFlags |-> buttonFlags % 65536,
   leftTrigger |-> 0, rightTrigger |-> 0,
   leftStickX |-> Uint16(leftStickX), leftStickY |-> 0,
   rightStickX |-> 0, rightStickY |-> 0,
   buttonFlags2 |-> IF s.isSunshine THEN buttonFlags \div 65536 ELSE 0]

\* SendMouseMove on an initialized stream
SendMouseMove(s, deltaX, deltaY) ==
  IF deltaX = 0 /\ deltaY = 0 THEN s
  ELSE LET s1 == [s EXCEPT !.currentRelMouseState.deltaX = @ + deltaX,
                           !.currentRelMouseState.deltaY = @ + deltaY]
       IN IF ~s1.currentRelMouseState.dirty
          THEN sendFunc([s1 EXCEPT !.currentRelMouseState.dirty = TRUE],
                        CtrlChannelMouse,
                        buildRelMouseMovePacket(deltaX, deltaY))
          ELSE s1

\* SendMousePosition on an initialized stream (the virtual mouse position
\* is not followed)
SendMousePosition(s, x, y, refWidth, refHeight) ==
  LET s1 == [s EXCEPT !.currentAbsMouseState.x = x,
                      !.currentAbsMouseState.y = y,
                      !.currentAbsMouseState.width = refWidth,
                      !.currentAbsMouseState.height = refHeight]
  IN IF ~s1.currentAbsMouseState.dirty
     THEN sendFunc([s1 EXCEPT !.currentAbsMouseState.dirty = TRUE],
                   CtrlChannelMouse,
                   buildAbsMouseMovePacket(x, y, refWidth, refHeight))
     ELSE s1

\* SendMultiController on an initialized stream, for button flags that are
\* not negative; triggers and three of the stick axes are left at 0
SendMultiController(s, controllerNumber, activeGamepadMask, buttonFlags, leftStickX) ==
  LET number == IF s.isSunshine THEN controllerNumber % MaxGamepads
                ELSE controllerNumber % 4
      mask == IF s.isSunshine THEN activeGamepadMask
              ELSE activeGamepadMask % 16
      flags == IF ~s.isSunshine /\ (buttonFlags \div ButtonMisc) % 2 = 1
                  /\ (buttonFlags \div ButtonHome) % 2 = 0
               THEN buttonFlags + ButtonHome ELSE buttonFlags
  IN sendFunc(s, CtrlChannelGamepadBase + number,
              buildMultiControllerPacket(s, number, mask, flags,
                                         leftStickX))

\* a Send call is noted in the history
Called(s, op, args) ==
  [s EXCEPT !.calls = Append(@, [op |-> op, args |-> args])]

\* NewStream
InputNewStream(isSunshine) ==
  /\ ~inputStream.initialized
  /\ inputStream.calls = <<>>
  /\ inputStream' = NewInputStream(isSunshine)
  /\ UNCHANGED <<serverVars, commonVars, clientVars, rtsp, pairing, mediaVars>>

SendMouseMoveCall(deltaX, deltaY) ==
  /\ inputStream.initialized
  /\ Len(inputStream.calls) < MaxInputCalls
  /\ inputStream' = SendMouseMove(
                      Called(inputStream, "SendMouseMove", <<deltaX, deltaY>>),
                      deltaX, deltaY)
  /\ UNCHANGED <<serverVars, commonVars, clientVars, rtsp, pairing, mediaVars>>

SendMousePositionCall(x, y) ==
  /\ inputStream.initialized
  /\ Len(inputStream.calls) < MaxInputCalls
  /\ inputStream' = SendMousePosition(
                Called(inputStream, "SendMousePosition", <<x, y>>),
                x, y, RefWidth, RefHeight)
  /\ UNCHANGED <<serverVars, commonVars, clientVars, rtsp, pairing, mediaVars>>

SendMultiControllerCall(controllerNumber, buttonFlags, leftStickX) ==
  /\ inputStream.initialized
  /\ Len(inputStream.calls) < MaxInputCalls
  /\ inputStream' = SendMultiController(
                Called(inputStream, "SendMultiController",
                       <<controllerNumber, buttonFlags, leftStickX>>),
                controllerNumber, 3, buttonFlags, leftStickX)
  /\ UNCHANGED <<serverVars, commonVars, clientVars, rtsp, pairing, mediaVars>>

NextInputStream ==
  \/ \E sun \in BOOLEAN : InputNewStream(sun)
  \/ \E dx \in Deltas, dy \in Deltas : SendMouseMoveCall(dx, dy)
  \/ \E x \in Positions, y \in Positions : SendMousePositionCall(x, y)
  \/ \E n \in ControllerNumbers, b \in ButtonFlags, x \in Deltas :
       SendMultiControllerCall(n, b, x)

SpecInputStream == InitInput /\ [][NextInputStream]_vars

\* ------------------------------------------------------ input stream: scroll
abs(x) == IF x < 0 THEN -x ELSE x

buildScrollPacket(amount) ==
  [magic |-> ScrollMagicGen5, amount |-> Uint16(amount),
   amount2 |-> Uint16(amount)]

RECURSIVE sendBatchedScrollLoop(_)
\* the for loop of sendBatchedScroll
sendBatchedScrollLoop(s) ==
  IF abs(s.batchedScrollDelta) >= WheelDelta
  THEN LET sendAmount == IF s.batchedScrollDelta < 0 THEN -WheelDelta
                         ELSE WheelDelta
           s1 == sendFunc(s, CtrlChannelMouse, buildScrollPacket(sendAmount))
       IN sendBatchedScrollLoop(
            [s1 EXCEPT !.batchedScrollDelta = @ - sendAmount])
  ELSE s

\* sendBatchedScroll without the reset on a change of direction
sendBatchedScroll_NoReset(s, amount) ==
  sendBatchedScrollLoop([s EXCEPT !.batchedScrollDelta = @ + amount])

sendBatchedScroll(s, amount) ==
  LET s1 == IF \/ s.batchedScrollDelta < 0 /\ amount > 0
               \/ s.batchedScrollDelta > 0 /\ amount < 0
            THEN [s EXCEPT !.batchedScrollDelta = 0] ELSE s
  IN sendBatchedScrollLoop([s1 EXCEPT !.batchedScrollDelta = @ + amount])

\* SendScroll on an initialized stream
SendScroll(s, amount) ==
  IF amount = 0 THEN s
  ELSE IF s.needsBatchedScroll THEN sendBatchedScroll(s, amount)
  ELSE sendFunc(s, CtrlChannelMouse, buildScrollPacket(amount))

\* NewStream for a host of some version
ScrollNewStream(appVersion, isSunshine) ==
  /\ ~inputStream.initialized
  /\ inputStream.calls = <<>>
  /\ inputStream' = NewStreamOfVersion(appVersion, isSunshine)
  /\ UNCHANGED <<serverVars, commonVars, clientVars, rtsp, pairing, mediaVars>>

SendScrollCall(amount) ==
  /\ inputStream.initialized
  /\ Len(inputStream.calls) < MaxScrollCalls
  /\ inputStream' = SendScroll(
                      Called(inputStream, "SendScroll", <<amount>>), amount)
  /\ UNCHANGED <<serverVars, commonVars, clientVars, rtsp, pairing, mediaVars>>

NextScroll ==
  \/ \E v \in ScrollAppVersions, sun \in BOOLEAN : ScrollNewStream(v, sun)
  \/ \E a \in ScrollAmounts : SendScrollCall(a)

SpecScroll == InitInput /\ [][NextScroll]_vars

\* ------------------------------------- input stream: the calls and s.mu
buildControllerArrivalPacket(controllerNumber) ==
  [magic |-> SSControllerArrivalMagic, controllerNumber |-> controllerNumber]

\* Close: s.mu.Lock(), initialized = false, unlock
InputClose ==
  /\ inputStream.initialized
  /\ inputStream.mu = 0
  /\ inputStream' = [inputStream EXCEPT !.initialized = FALSE]
  /\ UNCHANGED <<serverVars, commonVars, clientVars, rtsp, pairing, mediaVars>>

\* SendControllerArrival from s.mu.Lock() to its call of
\* s.SendMultiController, which it makes with s.mu held; on a stream that
\* is not initialized it returns (the deferred Unlock runs)
SendControllerArrival(c, controllerNumber) ==
  /\ inputStream.calls # <<>> \/ inputStream.initialized
  /\ inputStream.call[c].pc = "idle"
  /\ Len(inputStream.calls) < MaxInputCalls
  /\ inputStream.mu = 0
  /\ LET number == controllerNumber % MaxGamepads
         s0 == Called(inputStream, "SendControllerArrival",
                      <<controllerNumber>>)
         s1 == IF s0.isSunshine
               THEN sendFunc(s0, CtrlChannelGamepadBase + number,
                             buildControllerArrivalPacket(number))
               ELSE s0
     IN inputStream' =
          IF ~s0.initialized
          THEN [s0 EXCEPT !.call[c].ret = "ErrNotInitialized"]
          ELSE [s1 EXCEPT !.mu = c,
                          !.call[c] = [pc |-> "SendMultiController",
                                       from |-> "SendControllerArrival",
                                       args |-> <<number, 3, 0, 0>>,
                                       ret |-> ""]]
  /\ UNCHANGED <<serverVars, commonVars, clientVars, rtsp, pairing, mediaVars>>

\* a caller calls SendMultiController and stands at its s.mu.Lock()
SendMultiControllerCalled(c, controllerNumber, buttonFlags, leftStickX) ==
  /\ inputStream.calls # <<>> \/ inputStream.initialized
  /\ inputStream.call[c].pc = "idle"
  /\ Len(inputStream.calls) < MaxInputCalls
  /\ inputStream' =
       [Called(inputStream, "SendMultiController",
               <<controllerNumber, buttonFlags, leftStickX>>)
        EXCEPT !.call[c] = [pc |-> "SendMultiController", from |-> "",
                            args |-> <<controllerNumber, 3, buttonFlags,
                                       leftStickX>>,
                            ret |-> ""]]
  /\ UNCHANGED <<serverVars, commonVars, clientVars, rtsp, pairing, mediaVars>>

\* SendMultiController from s.mu.Lock() to its return.  sync.Mutex is not
\* reentrant: Lock waits until s.mu is unlocked, whoever holds it.  When the
\* call was made by SendControllerArrival that function returns too, and
\* its deferred Unlock finds s.mu unlocked, a fatal error of the runtime
SendMultiControllerLocked(c) ==
  /\ inputStream.call[c].pc = "SendMultiController"
  /\ inputStream.mu = 0
  /\ LET a == inputStream.call[c].args
         s1 == IF inputStream.initialized
               THEN SendMultiController(inputStream, a[1], a[2], a[3], a[4])
               ELSE inputStream
         r == IF inputStream.call[c].from = "SendControllerArrival"
              THEN "fatal error: unlock of unlocked mutex"
              ELSE IF inputStream.initialized THEN "nil"
              ELSE "ErrNotInitialized"
     IN inputStream' = [s1 EXCEPT !.call[c] = [IdleCall EXCEPT !.ret = r]]
  /\ UNCHANGED <<serverVars, commonVars, clientVars, rtsp, pairing, mediaVars>>

NextArrival ==
  \/ \E sun \in BOOLEAN : InputNewStream(sun)
  \/ InputClose
  \/ \E c \in Callers, n \in ControllerNumbers : SendControllerArrival(c, n)
  \/ \E c \in Callers, n \in ControllerNumbers, b \in ButtonFlags :
       SendMultiControllerCalled(c, n, b, 0)
  \/ \E c \in Callers : SendMultiControllerLocked(c)

\* a caller that waits at s.mu.Lock() gets the mutex if it is unlocked
\* again and again (sync.Mutex hands over to a starving waiter)
SpecArrival ==
  /\ InitInput
  /\ [][NextArrival]_vars
  /\ \A c \in Callers : SF_vars(SendMultiControllerLocked(c))

\* ------------------------------------------------------------ audio stream
\* audio.Stream.Start; ok: ListenUDP and the decoder's Init succeed.  The
\* ping loop, which only waits for the context and a ticker, is left out
AudioStart(packetDuration, directSubmit, encrypted, ok) ==
  /\ audio.state = "nil"
  /\ audio' =
       IF ~ok THEN [audio EXCEPT !.state = "failed"]
       ELSE [audio EXCEPT
               !.state = "started", !.directSubmit = directSubmit,
               !.encrypted = encrypted, !.ctx = "live", !.conn = "open",
               !.packetDuration = packetDuration,
               !.packetsToDrop = InitialDropMs \div packetDuration,
               !.receiveLoop = "select",
               !.decoderLoop = IF directSubmit THEN "none" ELSE "select"]
  /\ UNCHANGED <<serverVars, commonVars, clientVars, restVars, fec, upstream>>

\* receiveLoop: select on s.ctx.Done() with a default
receiveLoop_Select ==
  /\ audio.receiveLoop = "select"
  /\ audio' = [audio EXCEPT !.receiveLoop =
                  IF audio.ctx = "cancelled" THEN "returned" ELSE "read"]
  /\ UNCHANGED <<serverVars, commonVars, clientVars, restVars, fec, upstream>>

\* the drop counter after a packet of this payload type was dropped, as
\* if FEC packets counted too
countDropped_EveryPacket(packetsToDrop, ptype) == packetsToDrop - 1

\* the drop counter after a packet of this payload type was dropped
countDropped(packetsToDrop, ptype) ==
  IF ptype = AudioPayloadType THEN packetsToDrop - 1 ELSE packetsToDrop

\* a packet read takes its place in the history
Logged(a, pkt, fate) ==
  [a EXCEPT !.log = Append(@, [ptype |-> pkt.ptype, fate |-> fate,
                               frozen |-> a.frozen,
                               toDrop |-> a.packetsToDrop])]

\* receiveLoop: ReadFromUDP times out
receiveLoop_ReadTimeout ==
  /\ audio.receiveLoop = "read"
  /\ audio.conn = "open"
  /\ audio' = [audio EXCEPT
                 !.packetsToDrop = IF audio.receivedData THEN 0 ELSE @,
                 !.frozen = audio.receivedData,
                 !.receiveLoop = "select"]
  /\ UNCHANGED <<serverVars, commonVars, clientVars, restVars, fec, upstream>>

\* receiveLoop: ReadFromUDP fails on the closed socket
receiveLoop_ReadError ==
  /\ audio.receiveLoop = "read"
  /\ audio.conn = "closed"
  /\ audio' = [audio EXCEPT !.receiveLoop = "returned"]
  /\ UNCHANGED <<serverVars, commonVars, clientVars, restVars, fec, upstream>>

\* receiveLoop: ReadFromUDP returns a packet, up to the send on the queue
receiveLoop_Read(pkt) ==
  /\ audio.receiveLoop = "read"
  /\ audio.conn = "open"
  /\ Len(audio.log) < MaxAudioPackets
  /\ audio' =
       IF pkt.runt
       THEN [Logged(audio, pkt, "runt") EXCEPT !.receiveLoop = "select"]
       ELSE LET a1 == [audio EXCEPT !.receivedData = TRUE]
            IN IF a1.packetsToDrop > 0
               THEN [Logged(a1, pkt, "dropped") EXCEPT
                       !.packetsToDrop = countDropped(@, pkt.ptype),
                       !.receiveLoop = "select"]
               ELSE IF a1.encrypted /\ ~pkt.decrypts
               THEN [Logged(a1, pkt, "undecryptable") EXCEPT
                       !.receiveLoop = "select"]
               ELSE IF a1.directSubmit
               THEN [Logged(a1, pkt, "delivered") EXCEPT
                       !.receiveLoop = "select"]
               ELSE [Logged(a1, pkt, "delivered") EXCEPT
                       !.receiveLoop = "enqueue",
                       !.cur = Len(a1.log) + 1]
  /\ UNCHANGED <<serverVars, commonVars, clientVars, restVars, fec, upstream>>

\* receiveLoop: select { case s.packetQueue <- pkt: default: }.  A send on
\* a closed channel panics
receiveLoop_Enqueue ==
  /\ audio.receiveLoop = "enqueue"
  /\ audio' =
       IF audio.closed THEN [audio EXCEPT !.receiveLoop = "panicked"]
       ELSE IF Len(audio.queue) < AudioQueueCap
       THEN [audio EXCEPT !.queue = Append(@, audio.cur),
                          !.receiveLoop = "select"]
       ELSE [audio EXCEPT !.receiveLoop = "dropOldest"]
  /\ UNCHANGED <<serverVars, commonVars, clientVars, restVars, fec, upstream>>

\* receiveLoop: select { case <-s.packetQueue: default: }
receiveLoop_DropOldest ==
  /\ audio.receiveLoop = "dropOldest"
  /\ audio' = [audio EXCEPT
                 !.queue = IF @ = <<>> THEN @ ELSE Tail(@),
                 !.receiveLoop = "send"]
  /\ UNCHANGED <<serverVars, commonVars, clientVars, restVars, fec, upstream>>

\* receiveLoop: s.packetQueue <- pkt, which waits while the queue is full
receiveLoop_Send ==
  /\ audio.receiveLoop = "send"
  /\ audio.closed \/ Len(audio.queue) < AudioQueueCap
  /\ audio' =
       IF audio.closed THEN [audio EXCEPT !.receiveLoop = "panicked"]
       ELSE [audio EXCEPT !.queue = Append(@, audio.cur),
                          !.receiveLoop = "select"]
  /\ UNCHANGED <<serverVars, commonVars, clientVars, restVars, fec, upstream>>

\* decoderLoop: case <-s.ctx.Done()
decoderLoop_Done ==
  /\ audio.decoderLoop = "select"
  /\ audio.ctx = "cancelled"
  /\ audio' = [audio EXCEPT !.decoderLoop = "returned"]
  /\ UNCHANGED <<serverVars, commonVars, clientVars, restVars, fec, upstream>>

\* decoderLoop: case pkt, ok := <-s.packetQueue
decoderLoop_Receive ==
  /\ audio.decoderLoop = "select"
  /\ audio.queue # <<>> \/ audio.closed
  /\ audio' =
       IF audio.queue # <<>> THEN [audio EXCEPT !.queue = Tail(@)]
       ELSE [audio EXCEPT !.decoderLoop = "returned"]
  /\ UNCHANGED <<serverVars, commonVars, clientVars, restVars, fec, upstream>>

\* Stop: s.cancel() (cleanup has cancelled the client's context before)
AudioStop_Cancel ==
  /\ audio.state = "started"
  /\ audio.stop = "idle"
  /\ audio' = [audio EXCEPT !.ctx = "cancelled", !.stop = "cancelled"]
  /\ UNCHANGED <<serverVars, commonVars, clientVars, restVars, fec, upstream>>

\* Stop: s.callbacks.Stop() and s.conn.Close()
AudioStop_ConnClose ==
  /\ audio.stop = "cancelled"
  /\ audio' = [audio EXCEPT !.conn = "closed", !.stop = "connClosed"]
  /\ UNCHANGED <<serverVars, commonVars, clientVars, restVars, fec, upstream>>

\* Stop: close(s.packetQueue) when there is a queue
AudioStop_CloseQueue ==
  /\ audio.stop = "connClosed"
  /\ audio' = [audio EXCEPT !.closed = ~audio.directSubmit,
                            !.stop = "wait"]
  /\ UNCHANGED <<serverVars, commonVars, clientVars, restVars, fec, upstream>>

\* Stop: s.wg.Wait() and s.callbacks.Cleanup()
AudioStop_Wait ==
  /\ audio.stop = "wait"
  /\ audio.receiveLoop = "returned"
  /\ audio.decoderLoop \in {"none", "returned"}
  /\ audio' = [audio EXCEPT !.stop = "returned", !.state = "stopped"]
  /\ UNCHANGED <<serverVars, commonVars, clientVars, restVars, fec, upstream>>

NextAudio ==
  \/ \E d \in PacketDurations, ds \in BOOLEAN, e \in BOOLEAN, ok \in BOOLEAN :
       AudioStart(d, ds, e, ok)
  \/ receiveLoop_Select
  \/ receiveLoop_ReadTimeout
  \/ receiveLoop_ReadError
  \/ \E pkt \in AudioPackets : receiveLoop_Read(pkt)
  \/ receiveLoop_Enqueue
  \/ receiveLoop_DropOldest
  \/ receiveLoop_Send
  \/ decoderLoop_Done
  \/ decoderLoop_Receive
  \/ AudioStop_Cancel
  \/ AudioStop_ConnClose
  \/ AudioStop_CloseQueue
  \/ AudioStop_Wait

SpecAudio == InitInput /\ [][NextAudio]_vars

\* -------------------------------------------------------- fec: Reed-Solomon
RECURSIVE XOR(_, _)
\* a ^ b on unsigned integers
XOR(a, b) ==
  IF a = 0 THEN b
  ELSE IF b = 0 THEN a
  ELSE 2 * XOR(a \div 2, b \div 2) + ((a + b) % 2)

RECURSIVE gfExpGFBits(_)
\* generateGF, first loop: gfExp[GFBits] is the sum of the masks 1 << i over
\* the i < GFBits with GFPP[i] == '1' (from i on)
gfExpGFBits(i) ==
  IF i = GFBits THEN 0
  ELSE XOR(IF GFPP[i + 1] = 1 THEN 2 ^ i ELSE 0, gfExpGFBits(i + 1))

\* gfExp[i] for the table e that holds gfExp[0..i-1]
gfExpNext(e) ==
  LET i == Len(e)
      mask == 2 ^ (GFBits - 1)
  IN IF i < GFBits THEN 2 ^ i
     ELSE IF i = GFBits THEN gfExpGFBits(0)
     ELSE IF e[i] >= mask
     THEN XOR(e[GFBits + 1], XOR(e[i], mask) * 2)
     ELSE e[i] * 2

RECURSIVE gfExpFrom(_, _)
\* generateGF, the powers of alpha: e[i + 1] is gfExp[i], up to i < n; each
\* table is computed once, as a value, before the next entry is added
gfExpFrom(e, n) ==
  CHOOSE r \in {IF Len(v) = n THEN v
                ELSE gfExpFrom(Append(v, gfExpNext(v)), n) : v \in {e}} :
    TRUE

\* the table is filled in four runs of the loop
gfExpPowers64 == gfExpFrom(<<>>, 64)

gfExpPowers128 == gfExpFrom(gfExpPowers64, 128)

gfExpPowers192 == gfExpFrom(gfExpPowers128, 192)

gfExpPowers == gfExpFrom(gfExpPowers192, GFSize)

\* generateGF: gfLog[gfExp[i]] = i, and gfLog[0] = GFSize
gfLog ==
  [x \in 0..GFSize |->
     IF x = 0 THEN GFSize
     ELSE CHOOSE i \in 0..(GFSize - 1) : gfExpPowers[i + 1] = x]

gfInverse ==
  [x \in 0..GFSize |->
     IF x = 0 THEN 0 ELSE IF x = 1 THEN 1
     ELSE gfExpPowers[(GFSize - gfLog[x]) + 1]]

\* generateGF: the tables that Init leaves in the package variables
generateGF == [exp |-> gfExpPowers, log |-> gfLog, inverse |-> gfInverse]

\* gfExp[i] of the tables in place, with the extended values
\* gfExp[i + GFSize] = gfExp[i]
gfExp(i) == fec.gf.exp[(IF i < GFSize THEN i ELSE i - GFSize) + 1]

RECURSIVE modnn(_)
modnn(x) ==
  IF x >= GFSize
  THEN modnn(((x - GFSize) \div (2 ^ GFBits))
             + ((x - GFSize) % (2 ^ GFBits)))
  ELSE x

\* gfMulTable[(x << 8) + y] as initMulTable fills it
gfMul(x, y) ==
  IF x = 0 \/ y = 0 THEN 0
  ELSE gfExp(modnn(fec.gf.log[x] + fec.gf.log[y]))

\* addmul and mul on byte slices of one length: the new dst
addmul(dst, src, c) ==
  IF c = 0 THEN dst
  ELSE [i \in DOMAIN dst |-> XOR(dst[i], gfMul(c, src[i]))]

mul(dst, src, c) ==
  IF c = 0 THEN [i \in DOMAIN dst |-> 0]
  ELSE [i \in DOMAIN dst |-> gfMul(c, src[i])]

\* row r of a matrix of k columns, and the matrix with rows a and b swapped
MatrixRow(m, k, r) == [c \in 0..(k - 1) |-> m[r * k + c]]

SwapRows(m, k, a, b) ==
  [x \in DOMAIN m |->
     IF (x \div k) = a THEN m[b * k + (x % k)]
     ELSE IF (x \div k) = b THEN m[a * k + (x % k)]
     ELSE m[x]]

SwapColumns(m, k, a, b) ==
  [x \in DOMAIN m |->
     IF (x % k) = a THEN m[(x \div k) * k + b]
     ELSE IF (x % k) = b THEN m[(x \div k) * k + a]
     ELSE m[x]]

\* invertMatrix, the search for the pivot of column col: <<irow, icol>>, or
\* <<-1, -1>> when there is none.  st holds src, ipiv, indxr, indxc and the
\* error
findPivot(st, k, col) ==
  LET candidates == {p \in (0..(k - 1)) \X (0..(k - 1)) :
                       /\ st.ipiv[p[1]] # 1
                       /\ st.ipiv[p[2]] = 0
                       /\ st.src[p[1] * k + p[2]] # 0}
  IN IF st.ipiv[col] # 1 /\ st.src[col * k + col] # 0 THEN <<col, col>>
     ELSE IF candidates = {} THEN <<-1, -1>>
     ELSE CHOOSE p \in candidates :
            \A q \in candidates :
              p[1] < q[1] \/ (p[1] = q[1] /\ p[2] <= q[2])

\* invertMatrix: the pivot row scaled by the inverse of the pivot
scalePivotRow(swapped, k, icol) ==
  LET c == swapped[icol * k + icol]
  IN IF c # 1
     THEN [ix \in 0..(k - 1) |->
             gfMul(fec.gf.inverse[c],
                   IF ix = icol THEN 1 ELSE swapped[icol * k + ix])]
     ELSE MatrixRow(swapped, k, icol)

\* invertMatrix: the other rows reduced by the pivot row, unless the pivot
\* row is a row of the identity
reduceRows(swapped, k, icol, pivotRow) ==
  [x \in DOMAIN swapped |->
     IF (x \div k) = icol THEN pivotRow[(x % k)]
     ELSE IF \A ix \in 0..(k - 1) :
               pivotRow[ix] = (IF ix = icol THEN 1 ELSE 0)
     THEN swapped[x]
     ELSE addmul([MatrixRow(swapped, k, (x \div k)) EXCEPT ![icol] = 0],
                 pivotRow, swapped[(x \div k) * k + icol])[(x % k)]]

\* invertMatrix, the body of the loop over col once the rows are swapped
invertColumnSwapped(st, k, col, irow, icol, swapped) ==
  IF swapped[icol * k + icol] = 0 THEN [st EXCEPT !.err = "singular matrix"]
  ELSE [st EXCEPT !.src = reduceRows(swapped, k, icol,
                                     scalePivotRow(swapped, k, icol)),
                  !.ipiv[icol] = @ + 1,
                  !.indxr[col] = irow,
                  !.indxc[col] = icol]

\* invertMatrix, the body of the loop over col for the pivot found
invertColumnAt(st, k, col, irow, icol) ==
  IF icol = -1 THEN [st EXCEPT !.err = "singular matrix"]
  ELSE invertColumnSwapped(st, k, col, irow, icol,
                           IF irow # icol THEN SwapRows(st.src, k, irow, icol)
                           ELSE st.src)

\* invertMatrix, the body of the loop over col
invertColumn(st, k, col) ==
  invertColumnAt(st, k, col, findPivot(st, k, col)[1], findPivot(st, k, col)[2])

RECURSIVE invertColumns(_, _, _)
invertColumns(st, k, col) ==
  IF col = k \/ st.err # "nil" THEN st
  ELSE invertColumns(invertColumn(st, k, col), k, col + 1)

RECURSIVE unscramble(_, _, _)
\* invertMatrix, the loop that unscrambles the columns, from col down
unscramble(st, k, col) ==
  IF col < 0 THEN st.src
  ELSE unscramble(
         IF st.indxr[col] # st.indxc[col]
         THEN [st EXCEPT !.src = SwapColumns(@, k, st.indxr[col],
                                             st.indxc[col])]
         ELSE st, k, col - 1)

\* invertMatrix, after the loop over the columns
invertMatrixEnd(st, k) ==
  IF st.err # "nil" THEN [err |-> st.err, m |-> st.src]
  ELSE [err |-> "nil", m |-> unscramble(st, k, k - 1)]

\* invertMatrix: the error and the inverted matrix
invertMatrix(src, k) ==
  invertMatrixEnd(
    invertColumns([src |-> src, ipiv |-> [i \in 0..(k - 1) |-> 0],
                   indxr |-> [i \in 0..(k - 1) |-> 0],
                   indxc |-> [i \in 0..(k - 1) |-> 0], err |-> "nil"], k, 0),
    k)

subMatrix(matrix, rmin, cmin, rmax, cmax, ncols) ==
  [x \in 0..((rmax - rmin) * (cmax - cmin) - 1) |->
     matrix[(rmin + (x \div (cmax - cmin))) * ncols
            + cmin + (x % (cmax - cmin))]]

RECURSIVE multiplySum(_, _, _, _, _, _, _)
\* multiply, the inner loop from i on: the sum of a[r][i] * b[i][c]
multiplySum(a, ac, b, bc, r, c, i) ==
  IF i = ac THEN 0
  ELSE XOR(gfMul(a[r * ac + i], b[i * bc + c]),
           multiplySum(a, ac, b, bc, r, c, i + 1))

multiply(a, ar, ac, b, bc) ==
  [x \in 0..(ar * bc - 1) |->
     multiplySum(a, ac, b, bc, (x \div bc), (x % bc), 0)]

RECURSIVE codeSomeShardsFrom(_, _, _, _, _)
\* codeSomeShards, the loop over the inputs from c on: the new outputs.
\* inputs and outputs count from 0, the bytes of a shard from 1
codeSomeShardsFrom(matrixRows, inputs, outputs, dataShards, c) ==
  IF c = dataShards THEN outputs
  ELSE codeSomeShardsFrom(
         matrixRows, inputs,
         [iRow \in DOMAIN outputs |->
            IF c = 0
            THEN mul(outputs[iRow], inputs[c],
                     matrixRows[iRow * dataShards + c])
            ELSE addmul(outputs[iRow], inputs[c],
                        matrixRows[iRow * dataShards + c])],
         dataShards, c + 1)

codeSomeShards(matrixRows, inputs, outputs, dataShards) ==
  codeSomeShardsFrom(matrixRows, inputs, outputs, dataShards, 0)

\* the element of the parity row j at column i, as if every parity row
\* were the first one
parityElement_FirstRow(parityShards, i, j) ==
  fec.gf.inverse[parityShards + i]

\* New: the element of the parity row j at column i
parityElement(parityShards, i, j) ==
  fec.gf.inverse[XOR(parityShards + i, j)]

\* New: the matrix vm that New starts from
newMatrix(dataShards, totalShards) ==
  [x \in 0..(dataShards * totalShards - 1) |->
     IF (x \div dataShards) = (x % dataShards) THEN 1 ELSE 0]

\* New: the codec of the matrix with its parity rows filled in
NewCodec(dataShards, parityShards, matrix) ==
  [dataShards |-> dataShards,
   parityShards |-> parityShards,
   totalShards |-> dataShards + parityShards,
   matrix |-> matrix,
   parity |-> subMatrix(matrix, dataShards, 0, dataShards + parityShards,
                        dataShards, dataShards)]

\* New: the parity rows of the product are overwritten
fillParity(dataShards, parityShards, product) ==
  [x \in DOMAIN product |->
     IF (x \div dataShards) >= dataShards
     THEN parityElement(parityShards, (x % dataShards),
                        (x \div dataShards) - dataShards)
     ELSE product[x]]

\* New, from the inverted top square of vm on
NewFromTop(dataShards, parityShards, top) ==
  IF top.err # "nil" THEN [err |-> top.err, rs |-> NoFEC.rs]
  ELSE [err |-> "nil",
        rs |-> NewCodec(dataShards, parityShards,
                 fillParity(dataShards, parityShards,
                   multiply(newMatrix(dataShards, dataShards + parityShards),
                            dataShards + parityShards, dataShards,
                            top.m, dataShards)))]

\* fec.New after Init(): the error and the codec
New(dataShards, parityShards) ==
  IF \/ dataShards + parityShards > DataShardsMax
     \/ dataShards <= 0
     \/ parityShards <= 0
  THEN [err |-> "ErrTooManyShards", rs |-> NoFEC.rs]
  ELSE NewFromTop(dataShards, parityShards,
         invertMatrix(
           subMatrix(newMatrix(dataShards, dataShards + parityShards),
                     0, 0, dataShards, dataShards, dataShards),
           dataShards))

\* the shards i of a slice with lo <= i < hi, counted from 0 again
Slice(shards, lo, hi) == [i \in 0..(hi - lo - 1) |-> shards[lo + i]]

\* Encode: the error and the shards
Encode(rs, shards) ==
  LET n == Cardinality(DOMAIN shards)
      parity == codeSomeShards(rs.parity, Slice(shards, 0, rs.dataShards),
                               Slice(shards, rs.dataShards, n),
                               rs.dataShards)
  IN IF n # rs.totalShards
        \/ \E i \in DOMAIN shards : Len(shards[i]) # Len(shards[0])
     THEN [err |-> "ErrInvalidShardSize", shards |-> shards]
     ELSE [err |-> "nil",
           shards |-> [i \in DOMAIN shards |->
                         IF i < rs.dataShards THEN shards[i]
                         ELSE parity[i - rs.dataShards]]]

\* the elements of a set of numbers in ascending order
RECURSIVE Ascending(_)
Ascending(S) ==
  IF S = {} THEN <<>>
  ELSE LET m == CHOOSE x \in S : \A y \in S : x <= y
       IN <<m>> \o Ascending(S \ {m})

RECURSIVE copyRows(_, _, _, _)
\* Reconstruct: for the i-th missing shard idx, from i on, the row idx of
\* the decode matrix is copied to row i
copyRows(m, k, missingData, i) ==
  IF i > Len(missingData) THEN m
  ELSE copyRows([x \in DOMAIN m |->
                   IF (x \div k) = i - 1
                   THEN m[missingData[i] * k + (x % k)] ELSE m[x]],
                k, missingData, i + 1)

\* Reconstruct: the error and the shards; a shard that is nil is <<>>
Reconstruct(rs, shards, present) ==
  LET k == rs.dataShards
      n == rs.totalShards
      first == Ascending({i \in DOMAIN shards :
                            present[i] /\ Len(shards[i]) # 0})
      blockSize == IF first = <<>> THEN 0 ELSE Len(shards[first[1]])
      missingData == Ascending({i \in 0..(k - 1) : ~present[i]})
      presentData == Ascending({i \in 0..(k - 1) : present[i]})
      allParity == Ascending({i \in k..(n - 1) : present[i]})
      availableParity ==
        [i \in 1..(IF Len(allParity) < Len(missingData) THEN Len(allParity)
                   ELSE Len(missingData)) |-> allParity[i] - k]
      rows == [r \in 0..(k - 1) |->
                 IF r < Len(presentData) THEN presentData[r + 1]
                 ELSE k + availableParity[r - Len(presentData) + 1]]
      decodeMatrix == [x \in 0..(k * k - 1) |->
                         rs.matrix[rows[(x \div k)] * k + (x % k)]]
      subShards == [r \in 0..(k - 1) |-> shards[rows[r]]]
      inverted == invertMatrix(decodeMatrix, k)
      blank == [b \in 1..blockSize |-> 0]
      outputs == codeSomeShards(
                   copyRows(inverted.m, k, missingData, 1), subShards,
                   [i \in 0..(Len(missingData) - 1) |->
                      IF shards[missingData[i + 1]] = <<>> THEN blank
                      ELSE shards[missingData[i + 1]]],
                   k)
  IN IF Cardinality(DOMAIN shards) # n \/ Cardinality(DOMAIN present) # n
     THEN [err |-> "ErrInvalidShardSize", shards |-> shards]
     ELSE IF \E i \in DOMAIN shards :
               /\ present[i] /\ blockSize # 0 /\ i > first[1]
               /\ Len(shards[i]) # blockSize
     THEN [err |-> "ErrInvalidShardSize", shards |-> shards]
     ELSE IF blockSize = 0
     THEN [err |-> "ErrNotEnoughShards", shards |-> shards]
     ELSE IF missingData = <<>> THEN [err |-> "nil", shards |-> shards]
     ELSE IF Len(availableParity) < Len(missingData)
     THEN [err |-> "ErrNotEnoughShards", shards |-> shards]
     ELSE IF inverted.err # "nil"
     THEN [err |-> inverted.err, shards |-> shards]
     ELSE [err |-> "nil",
           shards |-> [i \in DOMAIN shards |->
                         IF i < k /\ ~present[i]
                         THEN outputs[CHOOSE j \in 0..(Len(missingData) - 1) :
                                        missingData[j + 1] = i]
                         ELSE shards[i]]]

\* Init, which the first statement of New calls: the tables are generated,
\* once
FecInit ==
  /\ fec.state = "nil"
  /\ fec' = [fec EXCEPT !.state = "init", !.gf = generateGF]
  /\ UNCHANGED <<serverVars, commonVars, clientVars, restVars, audio, upstream>>

\* a caller creates a codec
FecNew(dataShards, parityShards) ==
  /\ fec.state = "init"
  /\ LET r == New(dataShards, parityShards)
     IN fec' = [fec EXCEPT !.state = IF r.err = "nil" THEN "new"
                                     ELSE "failed",
                           !.rs = r.rs, !.err = r.err]
  /\ UNCHANGED <<serverVars, commonVars, clientVars, restVars, audio, upstream>>

\* the caller encodes data shards, with zeroed buffers for the parity
FecEncode(data) ==
  /\ fec.state = "new"
  /\ DOMAIN data = 0..(fec.rs.dataShards - 1)
  /\ LET blank == [b \in 1..BlockSize |-> 0]
         r == Encode(fec.rs, [i \in 0..(fec.rs.totalShards - 1) |->
                                IF i < fec.rs.dataShards THEN data[i]
                                ELSE blank])
     IN fec' = [fec EXCEPT !.state = "encoded", !.data = data,
                           !.shards = r.shards, !.err = r.err]
  /\ UNCHANGED <<serverVars, commonVars, clientVars, restVars, audio, upstream>>

\* some shards are lost on the way: the receiver holds nil for them
FecLose(present) ==
  /\ fec.state = "encoded"
  /\ DOMAIN present = 0..(fec.rs.totalShards - 1)
  /\ fec' = [fec EXCEPT !.state = "received", !.present = present,
                        !.shards = [i \in DOMAIN @ |->
                                      IF present[i] THEN @[i] ELSE <<>>]]
  /\ UNCHANGED <<serverVars, commonVars, clientVars, restVars, audio, upstream>>

\* the receiver reconstructs
FecReconstruct ==
  /\ fec.state = "received"
  /\ LET r == Reconstruct(fec.rs, fec.shards, fec.present)
     IN fec' = [fec EXCEPT !.state = "reconstructed", !.shards = r.shards,
                           !.err = r.err]
  /\ UNCHANGED <<serverVars, commonVars, clientVars, restVars, audio, upstream>>

NextFEC ==
  \/ FecInit
  \/ \E c \in ShardCounts : FecNew(c[1], c[2])
  \/ \E k \in 1..MaxDataShards :
       \E data \in [0..(k - 1) -> [1..BlockSize -> ShardBytes]] :
         FecEncode(data)
  \/ \E n \in 2..(MaxDataShards + MaxParityShards) :
       \E present \in [0..(n - 1) -> BOOLEAN] : FecLose(present)
  \/ FecReconstruct

SpecFEC == InitInput /\ [][NextFEC]_vars

\* ================================================= upstream stream (Close)
\* the goroutines that call Close on the stream: the stream's own
\* receiveLoop (native backend) and the streaming task startStreaming
Closers == {"receiveLoop", "task"}

Crashed == upstream.producer = "panicked" \/ \E w \in Closers : upstream.pc[w] = "panicked"

\* close(ch): a second close of a channel panics
closeChan(ch) == [ch EXCEPT !.closes = @ + 1]

\* select { case ch <- x: default: }: a send on a closed channel panics, a
\* full channel drops the frame
trySend(ch) == IF ch.len < MediaQueueCap THEN [ch EXCEPT !.len = @ + 1] ELSE ch

\* startStreaming up to the fan-out loop: StartStream launches the app,
\* dials the control connection and starts receiveLoop;
\* StartStreamWithLimelight installs the callbacks and starts the connection
upstreamStart(useLimelight, ok, dialed) ==
  /\ upstream.state = "nil"
  /\ upstream' =
       IF ~ok
         THEN [upstream EXCEPT !.state = "failed", !.ctx = "done",
                 !.backend = IF useLimelight THEN "limelight" ELSE "native"]
       ELSE IF useLimelight
         THEN [upstream EXCEPT !.state = "streaming", !.backend = "limelight",
                 !.producer = "running", !.pc["task"] = "select"]
       ELSE [upstream EXCEPT !.state = "streaming", !.backend = "native",
               !.conn = IF dialed THEN "open" ELSE "nil",
               !.pc["receiveLoop"] = "select", !.pc["task"] = "select"]
  /\ UNCHANGED <<serverVars, commonVars, clientVars, restVars, audio, fec>>

\* the context given to startStreaming is cancelled (session's cancel
\* function or server shutdown); the stream's context is its child
ContextCancel ==
  /\ upstream.state = "streaming"
  /\ ~Crashed
  /\ upstream.parent = "live"
  /\ upstream' = [upstream EXCEPT !.parent = "done", !.ctx = "done"]
  /\ UNCHANGED <<serverVars, commonVars, clientVars, restVars, audio, fec>>

\* receiveLoop, ticker case: counts a frame, sends nothing
upstreamReceiveLoop_Tick ==
  /\ upstream.pc["receiveLoop"] = "select"
  /\ ~Crashed
  /\ upstream.frameNum < MaxTicks
  /\ upstream' = [upstream EXCEPT !.frameNum = @ + 1]
  /\ UNCHANGED <<serverVars, commonVars, clientVars, restVars, audio, fec>>

\* receiveLoop, ctx.Done case: returns, and its deferred Close runs
upstreamReceiveLoop_Done ==
  /\ upstream.pc["receiveLoop"] = "select"
  /\ ~Crashed
  /\ upstream.ctx = "done"
  /\ upstream' = [upstream EXCEPT !.pc["receiveLoop"] = "close_cancel"]
  /\ UNCHANGED <<serverVars, commonVars, clientVars, restVars, audio, fec>>

\* the fan-out loop of startStreaming takes a frame from a media channel;
\* a closed and empty channel yields a nil frame at once
fanOut_Video ==
  /\ upstream.pc["task"] = "select"
  /\ ~Crashed
  /\ \/ /\ upstream.videoFrames.len > 0
        /\ upstream' = [upstream EXCEPT !.videoFrames.len = @ - 1]
     \/ /\ upstream.videoFrames.len = 0
        /\ upstream.videoFrames.closes > 0
        /\ upstream.nilFrames < MaxNilFrames
        /\ upstream' = [upstream EXCEPT !.nilFrames = @ + 1]
  /\ UNCHANGED <<serverVars, commonVars, clientVars, restVars, audio, fec>>

fanOut_Audio ==
  /\ upstream.pc["task"] = "select"
  /\ ~Crashed
  /\ \/ /\ upstream.audioFrames.len > 0
        /\ upstream' = [upstream EXCEPT !.audioFrames.len = @ - 1]
     \/ /\ upstream.audioFrames.len = 0
        /\ upstream.audioFrames.closes > 0
        /\ upstream.nilFrames < MaxNilFrames
        /\ upstream' = [upstream EXCEPT !.nilFrames = @ + 1]
  /\ UNCHANGED <<serverVars, commonVars, clientVars, restVars, audio, fec>>

\* the fan-out loop sees its context done and returns: the deferred Close
fanOut_Done ==
  /\ upstream.pc["task"] = "select"
  /\ ~Crashed
  /\ upstream.parent = "done"
  /\ upstream' = [upstream EXCEPT !.pc["task"] = "close_cancel"]
  /\ UNCHANGED <<serverVars, commonVars, clientVars, restVars, audio, fec>>

\* OnDecodeUnit of the limelight callbacks: the producer of video frames
OnDecodeUnit ==
  /\ upstream.producer = "running"
  /\ ~Crashed
  /\ upstream' =
       IF upstream.videoFrames.closes > 0
         THEN [upstream EXCEPT !.producer = "panicked"]
         ELSE [upstream EXCEPT !.videoFrames = trySend(@)]
  /\ upstream' # upstream
  /\ UNCHANGED <<serverVars, commonVars, clientVars, restVars, audio, fec>>

\* OnAudioSample of the limelight callbacks: the producer of audio samples
OnAudioSample ==
  /\ upstream.producer = "running"
  /\ ~Crashed
  /\ upstream' =
       IF upstream.audioFrames.closes > 0
         THEN [upstream EXCEPT !.producer = "panicked"]
         ELSE [upstream EXCEPT !.audioFrames = trySend(@)]
  /\ upstream' # upstream
  /\ UNCHANGED <<serverVars, commonVars, clientVars, restVars, audio, fec>>

\* Close, first statement: s.cancel()
Close_Cancel(w) ==
  /\ upstream.pc[w] = "close_cancel"
  /\ ~Crashed
  /\ upstream' = [upstream EXCEPT !.ctx = "done",
                    !.pc[w] = IF upstream.backend = "limelight"
                                THEN "close_stop" ELSE "close_conn"]
  /\ UNCHANGED <<serverVars, commonVars, clientVars, restVars, audio, fec>>

\* LimelightStream.Close: limelight.StopConnection() stops the client and
\* waits for its loops, so no callback runs after it; then the quit request
Close_StopConnection(w) ==
  /\ upstream.pc[w] = "close_stop"
  /\ ~Crashed
  /\ upstream' = [upstream EXCEPT !.producer = "stopped",
                    !.pc[w] = "close_video"]
  /\ UNCHANGED <<serverVars, commonVars, clientVars, restVars, audio, fec>>

\* Stream.Close: the quit request and conn.Close() when a connection was
\* dialed
Close_Conn(w) ==
  /\ upstream.pc[w] = "close_conn"
  /\ ~Crashed
  /\ upstream' = [upstream EXCEPT
                    !.conn = IF @ = "nil" THEN "nil" ELSE "closed",
                    !.pc[w] = "close_video"]
  /\ UNCHANGED <<serverVars, commonVars, clientVars, restVars, audio, fec>>

\* Close: close(s.videoFrames)
Close_Video(w) ==
  /\ upstream.pc[w] = "close_video"
  /\ ~Crashed
  /\ upstream' = [upstream EXCEPT !.videoFrames = closeChan(@),
                    !.pc[w] = IF upstream.videoFrames.closes > 0
                                THEN "panicked" ELSE "close_audio"]
  /\ UNCHANGED <<serverVars, commonVars, clientVars, restVars, audio, fec>>

\* Close: close(s.audioFrames), and Close returns
Close_Audio(w) ==
  /\ upstream.pc[w] = "close_audio"
  /\ ~Crashed
  /\ upstream' = [upstream EXCEPT !.audioFrames = closeChan(@),
                    !.pc[w] = IF upstream.audioFrames.closes > 0
                                THEN "panicked" ELSE "done"]
  /\ UNCHANGED <<serverVars, commonVars, clientVars, restVars, audio, fec>>

NextUpstream ==
  \/ \E useLimelight \in BOOLEAN, ok \in BOOLEAN, dialed \in BOOLEAN : upstreamStart(useLimelight, ok, dialed)
  \/ ContextCancel
  \/ upstreamReceiveLoop_Tick
  \/ upstreamReceiveLoop_Done
  \/ fanOut_Video
  \/ fanOut_Audio
  \/ fanOut_Done
  \/ OnDecodeUnit
  \/ OnAudioSample
  \/ \E w \in Closers : Close_Cancel(w)
  \/ \E w \in Closers : Close_StopConnection(w)
  \/ \E w \in Closers : Close_Conn(w)
  \/ \E w \in Closers : Close_Video(w)
  \/ \E w \in Closers : Close_Audio(w)

SpecUpstream == InitInput /\ [][NextUpstream]_vars

\* ================================================================= claims
Roster(s) == DOMAIN sess[s].peers

PeersWith(s, role) == {p \in Roster(s) : sess[s].peers[p].Role = role}

Min(S) == CHOOSE x \in S : \A y \in S : x <= y

\* ---------------------------------------------------------------------- C1
C1_OneSession ==
  /\ Cardinality(sessions) <= 1
  /\ Cardinality({s \in DOMAIN sess : ~sess[s].closed}) <= 1
  /\ active # NoSession => sessions = {active} /\ ~sess[active].closed

C1_CreateStep(t) ==
  pc[t] \in {"start_create", "ws_create"} /\ pc'[t] # pc[t]

\* C1: at most one session is open and registered at any time, and a
\* CreateSession call made while a session is active returns the error
\* "a session is already active" and changes neither the manager nor any
\* session, whatever CreateSession, CloseSession and CloseAll calls interleave.
C1_AtMostOneActiveSession ==
  /\ []C1_OneSession
  /\ [][\A t \in Procs :
          C1_CreateStep(t) /\ active # NoSession =>
            /\ ret'.err = ErrActive
            /\ UNCHANGED <<sessions, active, sess, nextPeer>>]_vars

\* a CreateSession call has failed because a session was active
C1_Witness == ret.op = "CreateSession" /\ ret.err = ErrActive

\* ---------------------------------------------------------------------- C2
\* the connection for which the session was created ("this client will be
\* the host") closes, or sends leave, while its session is active
C2_ConnHostLeaves(t) ==
  /\ pc[t] = "ws_open"
  /\ loc[t].owner
  /\ active = loc[t].sess
  /\ \/ pc'[t] = "idle"
     \/ /\ pc' = pc
        /\ loc[t].peer \in Roster(active)
        /\ loc[t].peer \notin DOMAIN sess'[active].peers

\* the REST leave request naming the Host peer returns
C2_RestHostLeft(t) ==
  /\ pc[t] = "leave_close"
  /\ pc'[t] = "idle"
  /\ loc[t].peer = GetHost(sess[loc[t].sess])

\* C2: when the Host leaves, the session stops being the active session: once
\* the REST leave request for the Host peer returns, and once the connection
\* that opened the session sends leave or closes, its session is not active.
C2_HostLeaveEndsSession ==
  [][\A t \in Procs :
       C2_ConnHostLeaves(t) \/ C2_RestHostLeft(t) =>
         active' # loc[t].sess]_vars

\* ---------------------------------------------------------------------- C3
\* C3: the roster of the active session holds exactly one peer of role Host.
C3_ExactlyOneHost ==
  active # NoSession => Cardinality(PeersWith(active, RoleHost)) = 1

\* ---------------------------------------------------------------------- C4
\* C4: in every session the Host has slot 0, every Player a slot in 1..3 and
\* every Spectator slot -1.
C4_SlotByRole ==
  \A s \in DOMAIN sess : \A p \in Roster(s) :
    LET peer == sess[s].peers[p] IN
      /\ peer.Role = RoleHost => peer.PlayerSlot = 0
      /\ peer.Role = RolePlayer => peer.PlayerSlot \in 1..3
      /\ peer.Role = RoleSpectator => peer.PlayerSlot = -1

\* a Player was demoted while the Host and another Player stay
C4_Witness ==
  /\ ret.op = "DemoteToSpectator" /\ ret.err = ErrNone
  /\ PeersWith(ret.sess, RoleHost) # {}
  /\ PeersWith(ret.sess, RoleSpectator) # {}
  /\ \E p \in PeersWith(ret.sess, RolePlayer) :
       sess[ret.sess].peers[p].PlayerSlot = 2

\* ---------------------------------------------------------------------- C5
\* C5: no two peers of a roster hold the same player slot, and the slot a
\* successful PromoteToPlayer returns is held by exactly one peer.
C5_DistinctSlots ==
  /\ \A s \in DOMAIN sess : \A p, q \in Roster(s) :
       p # q /\ sess[s].peers[p].PlayerSlot >= 0 =>
         sess[s].peers[p].PlayerSlot # sess[s].peers[q].PlayerSlot
  /\ ret.op = "PromoteToPlayer" /\ ret.err = ErrNone =>
       Cardinality({p \in Roster(ret.sess) :
                      sess[ret.sess].peers[p].PlayerSlot = ret.slot}) = 1

\* two Players in one session, the second just promoted
C5_Witness ==
  /\ ret.op = "PromoteToPlayer" /\ ret.err = ErrNone /\ ret.slot = 2
  /\ Cardinality(PeersWith(ret.sess, RolePlayer)) = 2

\* ---------------------------------------------------------------------- C6
\* the step promotes spectator p of session s
C6_Promotes(s, p) ==
  /\ p \in Roster(s)
  /\ sess[s].peers[p].Role = RoleSpectator
  /\ p \in DOMAIN sess'[s].peers
  /\ sess'[s].peers[p].Role = RolePlayer

\* the step is a PromoteToPlayer on session s that fails for lack of a slot
C6_Fails(s) ==
  ret'.op = "PromoteToPlayer" /\ ret'.sess = s /\ ret'.err = ErrNoSlots

FreeSlots(s, last) == {i \in 1..last : sess[s].playerSlot[i] = NoPeer}

\* the last slot a session hands out: min(maxPlayers, 4) - 1
LastSlot(s) ==
  IF sess[s].maxPlayers < NumSlots THEN sess[s].maxPlayers - 1
  ELSE NumSlots - 1

C6_PicksLowest(last) ==
  \A s \in DOMAIN sess :
    /\ \A p \in PeerIds :
         C6_Promotes(s, p) =>
           /\ FreeSlots(s, last) # {}
           /\ sess'[s].peers[p].PlayerSlot = Min(FreeSlots(s, last))
           /\ ret'.slot = Min(FreeSlots(s, last))
    /\ C6_Fails(s) => FreeSlots(s, last) = {}

\* C6 as claimed: promoting a Spectator takes the lowest free slot of 1..3 and
\* fails only when slots 1, 2 and 3 are all occupied.
C6_LowestOfThree == [][C6_PicksLowest(NumSlots - 1)]_vars

\* C6: promoting a Spectator takes the lowest free slot of
\* 1..min(maxPlayers, 4) - 1 and fails only when all of these are occupied.
C6_LowestFreeSlot ==
  [][\A s \in DOMAIN sess :
       /\ \A p \in PeerIds :
            C6_Promotes(s, p) =>
              /\ FreeSlots(s, LastSlot(s)) # {}
              /\ sess'[s].peers[p].PlayerSlot = Min(FreeSlots(s, LastSlot(s)))
              /\ ret'.slot = Min(FreeSlots(s, LastSlot(s)))
       /\ C6_Fails(s) => FreeSlots(s, LastSlot(s)) = {}]_vars

\* a promotion has failed with slot 1 taken under max-players 2
C6_Witness ==
  /\ ret.op = "PromoteToPlayer" /\ ret.err = ErrNoSlots
  /\ sess[ret.sess].maxPlayers = 2
  /\ sess[ret.sess].playerSlot[1] # NoPeer

\* ---------------------------------------------------------------------- C7
\* C7: a packet is put on a session's input channel only if CanSendInput holds
\* for its sender and kind at that moment, and it carries the sender's slot.
C7_InputOnlyWhenPermitted ==
  [][\A s \in DOMAIN sess :
       Len(sess'[s].inputChan) = Len(sess[s].inputChan) + 1 =>
         LET pkt == sess'[s].inputChan[Len(sess'[s].inputChan)] IN
           /\ CanSendInput(sess[s], pkt.PeerID, pkt.Type)
           /\ pkt.PlayerSlot = GetPlayerSlot(sess[s], pkt.PeerID)]_vars

\* ---------------------------------------------------------------------- C8
\* C8: CanSendInput is false for every Spectator and every input kind.
C8_SpectatorsSendNothing ==
  \A s \in DOMAIN sess : \A p \in PeersWith(s, RoleSpectator) :
    \A k \in InputTypes : ~CanSendInput(sess[s], p, k)

\* a Spectator whose keyboard flag was set
C8_Witness ==
  \E s \in DOMAIN sess : \E p \in PeersWith(s, RoleSpectator) :
    sess[s].peers[p].KeyboardEnabled

\* ---------------------------------------------------------------------- C9
\* C9: for keyboard, absolute mouse (which carries buttons and scroll) and
\* relative mouse, CanSendInput holds exactly for the Host and for a Player
\* whose keyboard flag is set.
C9_KeyboardNeedsGrant ==
  \A s \in DOMAIN sess : \A p \in Roster(s) :
    \A k \in {InputTypeKeyboard, InputTypeMouse, InputTypeMouseRelative} :
      CanSendInput(sess[s], p, k) <=>
        \/ sess[s].peers[p].Role = RoleHost
        \/ /\ sess[s].peers[p].Role = RolePlayer
           /\ sess[s].peers[p].KeyboardEnabled

\* one Player with the keyboard granted beside one without
C9_Witness ==
  \E s \in DOMAIN sess : \E p, q \in PeersWith(s, RolePlayer) :
    sess[s].peers[p].KeyboardEnabled /\ ~sess[s].peers[q].KeyboardEnabled

\* --------------------------------------------------------------------- C10
\* C10: for gamepad and touch input CanSendInput holds for the Host and for
\* every Player, whatever the keyboard flag.
C10_GamepadTouchForPlayers ==
  \A s \in DOMAIN sess : \A p \in Roster(s) :
    \A k \in {InputTypeGamepad, InputTypeTouch} :
      sess[s].peers[p].Role \in {RoleHost, RolePlayer} =>
        CanSendInput(sess[s], p, k)

\* --------------------------------------------------------------------- C11
\* C11: a keyboard-toggle request whose sender is not the Host of the active
\* session changes the keyboard flag of no peer other than its sender.
C11_OnlyHostToggles ==
  [][\A c \in PeerIds \cup {NoPeer}, p \in PeerIds, en \in BOOLEAN :
       handleToggleKeyboard(c, p, en) /\ c # GetHost(sess[active]) =>
         \A q \in Roster(active) \ {c} :
           sess'[active].peers[q].KeyboardEnabled
             = sess[active].peers[q].KeyboardEnabled]_vars

\* --------------------------------------------------------------------- C12
\* C12: right after a PromoteToPlayer call that turns a Spectator into a
\* Player, that peer's keyboard flag is false.
C12_PromotedWithoutKeyboard ==
  [][\A s \in DOMAIN sess : \A p \in PeerIds :
       C6_Promotes(s, p) => ~sess'[s].peers[p].KeyboardEnabled]_vars

\* --------------------------------------------------------------------- C13
\* the step is DemoteToSpectator(p) on session s, p being its Host
C13_DemotesHost(s, p) ==
  /\ DemoteToSpectatorCall(s, p)
  /\ p \in Roster(s)
  /\ sess[s].peers[p].Role = RoleHost

\* C13: DemoteToSpectator on the Host returns the error "cannot demote host",
\* changes no peer's role, slot or keyboard flag and no slot of the table,
\* does not panic, and leaves the manager's sessions and active session alone.
C13_HostDemotionIsAnError ==
  [][\A s \in DOMAIN sess : \A p \in PeerIds :
       C13_DemotesHost(s, p) =>
         /\ ret'.err = ErrDemoteHost
         /\ sess' = sess
         /\ UNCHANGED <<sessions, active>>
         /\ ~panicked']_vars

\* the Host's demotion was refused in the active session, which also holds
\* a Player
C13_Witness ==
  /\ ret.op = "DemoteToSpectator" /\ ret.err = ErrDemoteHost
  /\ active = ret.sess
  /\ PeersWith(active, RoleHost) # {}
  /\ PeersWith(active, RolePlayer) # {}

\* --------------------------------------------------------------------- C14
\* C14: once Close has run on a session (from CloseSession or CloseAll), its
\* streaming task eventually is not running, whether the session was created
\* by the start-session request or by the first WebSocket connection.
C14_StreamingStopsAfterClose ==
  \A s \in SessionIds :
    (s \in DOMAIN sess /\ sess[s].closed)
      ~> (s \in DOMAIN sess /\ sess[s].streaming \notin StreamRunning)

\* --------------------------------------------------------------------- C15
\* the step gives connection t its peer identity
C15_Connects(t) == pc[t] = "ws_join" /\ pc'[t] = "ws_open"

\* C15: the peer given to a connection that found no active session and
\* created one is the Host of that session, with slot 0 and every input kind
\* the Host may send; the peer given to a connection that found an active
\* session is a Spectator.
C15_FirstConnectionIsHost ==
  [][\A t \in Conns :
       C15_Connects(t) =>
         LET s == sess'[loc[t].sess]
             p == loc'[t].peer
         IN IF loc[t].owner
            THEN /\ p = GetHost(s)
                 /\ s.peers[p].Role = RoleHost
                 /\ s.peers[p].PlayerSlot = 0
                 /\ \A k \in InputTypes \ {InputTypeTouch} :
                      CanSendInput(s, p, k)
            ELSE s.peers[p].Role = RoleSpectator]_vars

\* --------------------------------------------------------------------- C16
\* the units the step hands to the decode consumer
Handed == SubSeq(decoded', Len(decoded) + 1, Len(decoded'))

\* C16: no step taken while waitingForIDR is true hands the decode consumer a
\* P-frame unit, whether units are submitted directly or through the queue.
C16_NoPFrameWhileWaiting ==
  [][video.waitingForIDR =>
       \A i \in DOMAIN Handed : Handed[i].FrameType # FrameTypePFrames]_vars

\* --------------------------------------------------------------------- C17
\* the step reads packet q, its end-of-frame bit set, which processPacket
\* accepts and adds to the frame under assembly (or to a new frame when none
\* is under assembly), so that exactly this frame goes to submitFrame
SubmitsOnEOF(q) ==
  /\ receiveLoop(q)
  /\ Len(Payload(q)) >= NVHeaderLen
  /\ HasBit(RTPPacket(q).PacketType, PacketTypeEOF)
  /\ ~video.waitingForIDR \/ HasBit(RTPPacket(q).PacketType, PacketTypeIDR)
  /\ \/ video.currentFrame = NoFrame
     \/ video.currentFrame.FrameNumber = FrameOf(q)

\* the frame that step submits
SubmittedOnEOF(q) ==
  LET frame == IF video.currentFrame = NoFrame
               THEN FrameAssembly(FrameOf(q),
                      IF HasBit(RTPPacket(q).PacketType, PacketTypeIDR)
                      THEN FrameTypeIDR ELSE FrameTypePFrames)
               ELSE video.currentFrame
  IN [frame EXCEPT !.Packets = Append(@, RTPPacket(q))]

\* frame f of the sent stream with all its packets, in order
IntactFrame(f) ==
  [FrameNumber |-> f,
   FrameType |-> IF f % 2 = 1 THEN FrameTypeIDR ELSE FrameTypePFrames,
   Packets |-> [i \in 1..PacketsPerFrame |->
                  RTPPacket((f - 1) * PacketsPerFrame + i - 1)]]

\* C17: when the last packet of an IDR frame completes the frame, received
\* intact, its unit is handed to the decode consumer or enters the decode
\* queue, also when the queue is full.
C17_IDRNeverDropped ==
  [][\A q \in SeqNums :
       SubmitsOnEOF(q) /\ SubmittedOnEOF(q).FrameType = FrameTypeIDR
         /\ SubmittedOnEOF(q) = IntactFrame(FrameOf(q)) =>
           \/ Handed = <<DecodeUnit(SubmittedOnEOF(q))>>
           \/ /\ video'.frameQueue # <<>>
              /\ video'.frameQueue[Len(video'.frameQueue)]
                   = DecodeUnit(SubmittedOnEOF(q))]_vars

\* --------------------------------------------------------------------- C18
\* C18: a unit submitted while the decode queue is full takes the place of
\* the oldest queued unit, and DroppedFrames grows by one.
C18_FullQueueDropsOldest ==
  [][\A q \in SeqNums :
       SubmitsOnEOF(q) /\ ~DirectSubmit(video)
         /\ Len(video.frameQueue) = FrameQueueCap =>
           /\ video'.frameQueue
                = Append(Tail(video.frameQueue), DecodeUnit(SubmittedOnEOF(q)))
           /\ video'.stats.DroppedFrames = video.stats.DroppedFrames + 1]_vars

\* --------------------------------------------------------------------- C19
RECURSIVE SumLengths(_)
SumLengths(bufs) ==
  IF bufs = <<>> THEN 0 ELSE Head(bufs).Length + SumLengths(Tail(bufs))

RECURSIVE SumPayloads(_)
SumPayloads(bufs) ==
  IF bufs = <<>> THEN 0 ELSE Len(Head(bufs).Data) + SumPayloads(Tail(bufs))

\* the sequence number of the packet a buffer's payload came with: the
\* payload bodies of the sent stream repeat it
SeqOfPayload(data) == data[NVHeaderLen + 1]

\* C19: in every unit handed to the decode consumer the buffer lengths add up
\* to the payload lengths of its packets, and its packets' sequence numbers
\* are strictly increasing.
C19_UnitPacketsInOrder ==
  \A i \in DOMAIN decoded :
    LET bufs == decoded[i].BufferList IN
      /\ SumLengths(bufs) = SumPayloads(bufs)
      /\ \A j, k \in DOMAIN bufs :
           j < k => SeqOfPayload(bufs[j].Data) < SeqOfPayload(bufs[k].Data)

\* --------------------------------------------------------------------- C20
\* C20: no two units handed to the decode consumer carry the same frame
\* index.
C20_OneUnitPerFrameIndex ==
  \A i, j \in DOMAIN decoded :
    i # j => decoded[i].FrameNumber # decoded[j].FrameNumber

\* --------------------------------------------------------------------- C21
\* what the listener saw of the stages of the current attempt: the stage
\* callbacks and ConnectionStarted, without the control stream's callbacks
StageLog ==
  SelectSeq(listener,
            LAMBDA e : e.cb \in {"StageStarting", "StageComplete",
                                 "StageFailed", "ConnectionStarted"})

NumStages == StageInputStreamStart

\* C21: the stages are reported in the order PlatformInit .. InputStreamStart,
\* each as Starting followed by exactly one of Complete and Failed before
\* anything of a later stage; nothing follows a Failed; ConnectionStarted
\* comes only after all ten stages reported Complete
C21_StagesLinear ==
  /\ Len(StageLog) <= 2 * NumStages + 1
  /\ \A i \in DOMAIN StageLog :
       /\ (i <= 2 * NumStages /\ i % 2 = 1) =>
            StageLog[i] = Callback("StageStarting", (i + 1) \div 2)
       /\ (i <= 2 * NumStages /\ i % 2 = 0) =>
            StageLog[i] \in {Callback("StageComplete", i \div 2),
                             Callback("StageFailed", i \div 2)}
       /\ i = 2 * NumStages + 1 =>
            StageLog[i] = Callback("ConnectionStarted", 0)
       /\ StageLog[i].cb = "StageFailed" => i = Len(StageLog)

\* Start returned an error after the audio stream failed to start
C21_Witness ==
  /\ start.pc = "idle"
  /\ start.ret = "init"
  /\ StageLog # <<>>
  /\ StageLog[Len(StageLog)] = Callback("StageFailed", StageAudioStreamInit)

\* --------------------------------------------------------------------- C22
\* what a Start has brought up is down again
TornDown ==
  /\ limelightClient.ctx # "live"
  /\ limelightClient.rtspClient # "open"
  /\ control.state # "running"
  /\ limelightClient.videoStream # "running"
  /\ limelightClient.audioStream # "running"

\* C22: when Start has returned the error of a failed stage, the
\* cancellation scope, the RTSP connection and the control, video and audio
\* streams it had brought up are torn down
C22_FailedStartUnwinds ==
  (start.pc = "idle" /\ start.ret \in {"rtsp", "init"}) => TornDown

\* --------------------------------------------------------------------- C23
\* the error code a Termination payload carries
TerminationCode(payload) ==
  IF Len(payload) >= 4 THEN BigEndianUint32(payload)
  ELSE LittleEndianUint16(payload)

\* the control stream has read a Termination message
TerminationReceived == control.terminations # <<>>

\* the listener was told of the termination with the code of a message read
TerminationSurfaced ==
  \E i \in DOMAIN listener, j \in DOMAIN control.terminations :
    listener[i] = Callback("ConnectionTerminated",
                           TerminationCode(control.terminations[j]))

\* the connection is unwound
Unwound ==
  /\ TornDown
  /\ ~limelightClient.connected
  /\ ~limelightStream.connected

\* C23: after the control stream read a Termination message the listener
\* is told ConnectionTerminated with its error code and the connection
\* unwinds: streams down, nobody reports being connected
C23_TerminationUnwinds ==
  TerminationReceived ~> (TerminationSurfaced /\ Unwound)

\* --------------------------------------------------------------------- C24
\* C24: the seqs of the encrypted frames handed to the packet handlers are
\* strictly increasing: a frame whose seq is not above the last accepted one
\* is not dispatched
C24_NoReplayDispatched ==
  \A i, j \in DOMAIN control.handled :
    i < j => control.handled[i] < control.handled[j]

\* --------------------------------------------------------------------- C25
\* the statuses the listener was told, in order
StatusLog ==
  [i \in DOMAIN SelectSeq(listener,
                          LAMBDA e : e.cb = "ConnectionStatusUpdate") |->
     SelectSeq(listener, LAMBDA e : e.cb = "ConnectionStatusUpdate")[i].arg]

\* the status the listener knows: Okay until told otherwise
LastStatus ==
  IF StatusLog = <<>> THEN ConnStatusOkay ELSE StatusLog[Len(StatusLog)]

\* an interval with frames in it is closed by this step
IntervalCloses ==
  /\ control.state = "running"
  /\ control'.intervals = control.intervals + 1
  /\ control.intervalTotalCount > 0

\* share of the interval's frames that were not good, against a percentage
LossAtLeast(pct) ==
  (control.intervalTotalCount - control.intervalGoodCount) * 100
    >= pct * control.intervalTotalCount

LossAtMost(pct) ==
  (control.intervalTotalCount - control.intervalGoodCount) * 100
    <= pct * control.intervalTotalCount

C25_Step ==
  /\ (IntervalCloses /\ LastStatus = ConnStatusOkay /\ LossAtLeast(30)) =>
       StatusLog' = Append(StatusLog, ConnStatusPoor)
  /\ (IntervalCloses /\ LastStatus = ConnStatusPoor /\ LossAtMost(5)) =>
       StatusLog' = Append(StatusLog, ConnStatusOkay)
  /\ StatusLog' # StatusLog =>
       \E st \in {ConnStatusOkay, ConnStatusPoor} :
         st # LastStatus /\ StatusLog' = Append(StatusLog, st)

\* C25: an interval closing with loss >= 30 while the status is Okay gives
\* exactly one ConnectionStatusUpdate(Poor), one closing with loss <= 5 while
\* the status is Poor exactly one ConnectionStatusUpdate(Okay), and no update
\* repeats the status of the one before it
C25_StatusOnTransitionsOnly == [][C25_Step]_vars

\* the connection went Poor and came back
C25_Witness == StatusLog = <<ConnStatusPoor, ConnStatusOkay>>

\* --------------------------------------------------------------------- C28
\* the order of requests the handshake is to follow
RTSPOrder ==
  <<"OPTIONS", "DESCRIBE", "SETUP streamid=audio/0/0",
    "SETUP streamid=video/0/0", "SETUP streamid=control/13/0", "ANNOUNCE",
    "PLAY">>

IsPrefix(a, b) == Len(a) <= Len(b) /\ SubSeq(b, 1, Len(a)) = a

\* the requests of the handshake among those the rtsp.Client sent
HandshakeOf(w) == SelectSeq(w, LAMBDA r : r # "TEARDOWN")

\* C28: both RTSP handshakes send OPTIONS, DESCRIBE, SETUP audio, SETUP
\* video, SETUP control, ANNOUNCE, PLAY in this order, and once a request
\* has failed the handshake sends no further one
C28_RTSPRequestOrder ==
  /\ [](IsPrefix(HandshakeOf(wire), RTSPOrder) /\ IsPrefix(rtsp.sent, RTSPOrder))
  /\ [][/\ rtsp.state = "failed" => rtsp'.sent = rtsp.sent
        /\ (start.pc = "idle" /\ start.ret = "rtsp") =>
             HandshakeOf(wire') \in {HandshakeOf(wire), <<>>}]_vars

\* --------------------------------------------------------------------- C26
\* the receive loop gave up waiting for the first packet
NoVideoTraffic == video.receiveLoop = "returned" /\ ~video.receivedData

\* C26: when the video receiver has waited 10 s without a packet, the
\* listener is told of ErrNoVideoTraffic
C26_NoTrafficReported ==
  NoVideoTraffic =>
    \E i \in DOMAIN listener :
      /\ listener[i].cb \in {"ConnectionTerminated", "StageFailed"}
      /\ listener[i].arg = ErrNoVideoTraffic

\* --------------------------------------------------------------------- C27
\* Connect returned the failure of a pairing phase
PairingFailed == pairing.pc = "idle" /\ pairing.ret.err = "pairing error"

\* C27: when a pairing phase has failed, the last request made before the
\* failure is returned is the unpair request
C27_UnpairOnPairingFailure ==
  PairingFailed =>
    /\ pairing.requests # <<>>
    /\ pairing.requests[Len(pairing.requests)] = "unpair"

\* --------------------------------------------------------------------- C29
\* the int16 a uint16 field of a packet stands for
Int16(u) == IF u >= 32768 THEN u - 65536 ELSE u

RECURSIVE SumOf(_, _)
\* sum of f over the elements of a sequence
SumOf(f(_), seq) ==
  IF seq = <<>> THEN 0 ELSE f(Head(seq)) + SumOf(f, Tail(seq))

MoveCalls == SelectSeq(inputStream.calls, LAMBDA c : c.op = "SendMouseMove")

PositionCalls ==
  SelectSeq(inputStream.calls, LAMBDA c : c.op = "SendMousePosition")

RelPackets ==
  SelectSeq(inputStream.sent,
            LAMBDA m : m.packet.magic = MouseMoveRelMagicGen5)

AbsPackets ==
  SelectSeq(inputStream.sent, LAMBDA m : m.packet.magic = MouseMoveAbsMagic)

\* C29: no movement is lost.  A Send call returns with its packet written,
\* so between two calls nothing is pending: the relative movement sent adds
\* up to the movement asked for, and the last absolute position sent is the
\* last one asked for
C29_NoMovementLost ==
  /\ SumOf(LAMBDA m : Int16(m.packet.deltaX), RelPackets)
       = SumOf(LAMBDA c : c.args[1], MoveCalls)
  /\ SumOf(LAMBDA m : Int16(m.packet.deltaY), RelPackets)
       = SumOf(LAMBDA c : c.args[2], MoveCalls)
  /\ PositionCalls # <<>> =>
       /\ AbsPackets # <<>>
       /\ LET last == AbsPackets[Len(AbsPackets)].packet
              call == PositionCalls[Len(PositionCalls)]
          IN Int16(last.x) = call.args[1] /\ Int16(last.y) = call.args[2]

\* --------------------------------------------------------------------- C30
ControllerPackets(number) ==
  SelectSeq(inputStream.sent,
            LAMBDA m : /\ m.packet.magic = MultiControllerMagicGen5
                       /\ m.packet.controllerNumber = number)

\* this step is a SendMultiController call
IsControllerCall ==
  /\ Len(inputStream'.calls) = Len(inputStream.calls) + 1
  /\ inputStream'.calls[Len(inputStream'.calls)].op = "SendMultiController"

\* the controller state the step's call stands for: the packet
\* SendMultiController builds from its arguments
StateOf(call) ==
  LET s == SendMultiController(inputStream, call.args[1], 3, call.args[2],
                               call.args[3])
  IN s.sent[Len(s.sent)].packet

\* the packets the step handed to sendFunc
NewPackets ==
  SubSeq(inputStream'.sent, Len(inputStream.sent) + 1,
         Len(inputStream'.sent))

C30_Step ==
  IsControllerCall =>
    LET call == inputStream'.calls[Len(inputStream'.calls)]
        before == ControllerPackets(StateOf(call).controllerNumber)
    IN IF before # <<>> /\ before[Len(before)].packet = StateOf(call)
       THEN NewPackets = <<>>
       ELSE /\ Len(NewPackets) = 1
            /\ NewPackets[1].packet = StateOf(call)

\* C30: a controller state equal to the last one sent for its controller
\* number produces no packet; a different state, or any state for a
\* controller number nothing was sent for, produces one
C30_ControllerDedup == [][C30_Step]_vars

\* --------------------------------------------------------------------- C31
\* the amounts of the SendScroll calls made, and of the scroll events sent
ScrollCalled ==
  [i \in 1..Len(inputStream.calls) |-> inputStream.calls[i].args[1]]

ScrollSent ==
  [i \in 1..Len(inputStream.sent) |-> Int16(inputStream.sent[i].packet.amount)]

RECURSIVE Events(_, _)
\* the events batching is to emit for the amounts still to come, with acc
\* accumulated so far: a reversal discards acc, and every 120 units
\* accumulated give one event of 120 units in the direction of the scroll
Events(acc, amounts) ==
  IF amounts = <<>> THEN <<>>
  ELSE LET a == Head(amounts)
           kept == IF (acc < 0 /\ a > 0) \/ (acc > 0 /\ a < 0) THEN 0 ELSE acc
           total == kept + a
           n == abs(total) \div WheelDelta
           unit == IF total < 0 THEN -WheelDelta ELSE WheelDelta
       IN [i \in 1..n |-> unit] \o Events(total - n * unit, Tail(amounts))

\* C31: on a stream that batches scrolls the events sent are those of the
\* accumulation with discard on reversal; +30,+30,+30,+30 gives exactly one
\* event of 120 and +60,-60,+60 gives none
C31_ScrollBatching ==
  inputStream.needsBatchedScroll =>
    /\ ScrollSent = Events(0, ScrollCalled)
    /\ ScrollCalled = <<30, 30, 30, 30>> => ScrollSent = <<120>>
    /\ ScrollCalled = <<60, -60, 60>> => ScrollSent = <<>>

C31_Witness ==
  /\ inputStream.needsBatchedScroll
  /\ ScrollCalled = <<30, 30, 30, 30>>
  /\ ScrollSent = <<120>>

\* --------------------------------------------------------------------- C36
\* C36: every call of the input stream returns: a caller inside
\* SendControllerArrival, or inside a Send call issued by another caller,
\* is eventually in no call
C36_ArrivalReturns ==
  \A c \in Callers :
    (inputStream.call[c].pc # "idle") ~> (inputStream.call[c].pc = "idle")

\* --------------------------------------------------------------------- C32
\* the packets of the history that are long enough to be looked at
Received == SelectSeq(audio.log, LAMBDA e : e.fate # "runt")

\* the number of packets to drop at the start
InitialDrop == InitialDropMs \div audio.packetDuration

\* how many of the first n packets received are audio packets
AudioAmong(n) ==
  Cardinality({j \in 1..n : Received[j].ptype = AudioPayloadType})

\* C32 as stated: until a read has timed out after data the first
\* 500 / packetDuration packets received are dropped and the packets after
\* them are not; after the timeout no packet is dropped
C32_FirstPacketsDropped ==
  audio.state # "nil" /\ audio.state # "failed" =>
    \A i \in 1..Len(Received) :
      Received[i].fate = "dropped"
        <=> (~Received[i].frozen /\ i <= InitialDrop)

\* C32: until a read has timed out after data, a packet received is
\* dropped exactly when fewer than 500 / packetDuration audio packets
\* (payload type 97) were received before it, so FEC packets received
\* meanwhile are dropped without being counted; after the timeout no
\* packet is dropped
C32_FirstAudioPacketsDropped ==
  audio.state # "nil" /\ audio.state # "failed" =>
    \A i \in 1..Len(Received) :
      Received[i].fate = "dropped"
        <=> (~Received[i].frozen /\ AudioAmong(i - 1) < InitialDrop)

\* a FEC packet and the first audio packet were dropped, the next packet
\* was delivered, and after a timeout nothing was dropped any more
C32_Witness ==
  /\ audio.packetDuration = 500
  /\ Len(Received) = 3
  /\ Received[1].ptype = 127 /\ Received[1].fate = "dropped"
  /\ Received[2].ptype = AudioPayloadType /\ Received[2].fate = "dropped"
  /\ Received[3].fate = "delivered"

\* --------------------------------------------------------------------- C37
\* C37: the receive loop never sends on the closed packet queue
C37_NoSendOnClosedQueue == audio.receiveLoop # "panicked"

\* --------------------------------------------------------------------- C33
\* the shards Reconstruct was called with
ShardsPresent == {i \in DOMAIN fec.present : fec.present[i]}

DataRestored ==
  \A i \in 0..(fec.rs.dataShards - 1) : fec.shards[i] = fec.data[i]

\* C33: for a codec of k data shards among n, when Encode has produced the
\* parity of k data shards of one size (at least one byte) and at least k
\* of the n shards are present, Reconstruct succeeds and every data shard
\* is the original one again
C33_AnyKShardsReconstruct ==
  (fec.state = "reconstructed"
     /\ Cardinality(ShardsPresent) >= fec.rs.dataShards)
    => (fec.err = "nil" /\ DataRestored)

\* two data shards were lost, exactly k shards were left, and Reconstruct
\* restored the data
C33_Witness ==
  /\ fec.state = "reconstructed"
  /\ fec.rs.dataShards = 3
  /\ fec.rs.parityShards = 2
  /\ ShardsPresent = {1, 3, 4}
  /\ fec.data = [i \in 0..2 |-> <<IF i = 0 THEN 200 ELSE 1>>]
  /\ fec.err = "nil"
  /\ DataRestored

\* --------------------------------------------------------------------- C34
\* C34: the SendInput of handlePeerInput never sends on an input queue that
\* Close has closed, and does not panic
C34_NoSendOnClosedInputQueue ==
  [][\A t \in Conns :
       (pc[t] = "input_send" /\ pc'[t] = "ws_open") =>
         (~sess[loc[t].isess].closed /\ ~panicked')]_vars

\* --------------------------------------------------------------------- C35
\* C35: a P-frame unit goes to the decode consumer only when an IDR unit
\* went to it before, since the stream started or since the last
\* RequestIDRFrame
C35_NoPFrameBeforeIDRDelivered ==
  [][\A i \in DOMAIN Handed :
       Handed[i].FrameType = FrameTypePFrames =>
         \/ video.idrHanded
         \/ \E j \in 1..(i - 1) : Handed[j].FrameType = FrameTypeIDR]_vars

\* --------------------------------------------------------------------- C38
\* C38: however often and whenever Close of an upstream stream runs, each
\* media channel is closed at most once and no producer sends on a closed
\* channel: no goroutine panics
C38_CloseSafe ==
  /\ upstream.videoFrames.closes <= 1
  /\ upstream.audioFrames.closes <= 1
  /\ ~Crashed

\* --------------------------------------------------------------------- C39
\* the listener is told ConnectionTerminated in this step
TerminatedSurfaces ==
  /\ Len(listener') = Len(listener) + 1
  /\ listener'[Len(listener')].cb = "ConnectionTerminated"

\* C39: the listener is never told ConnectionTerminated because Stop closed
\* the socket: when it is told, the socket was not closed by Stop
C39_StopIsSilent ==
  [][TerminatedSurfaces => control.conn # "closed"]_vars

\* --------------------------------------------------------------------- C40
\* slot i of the slot table holds p exactly when p is in the roster with
\* player slot i
SlotTableMatchesRoster ==
  \A s \in DOMAIN sess : \A i \in Slots, p \in PeerIds :
    sess[s].playerSlot[i] = p <=>
      (p \in Roster(s) /\ sess[s].peers[p].PlayerSlot = i)

\* a peer that held a slot and leaves the roster or becomes a Spectator in
\* this step leaves its slot free
SlotFreed ==
  \A s \in DOMAIN sess : \A p \in Roster(s) :
    LET slot == sess[s].peers[p].PlayerSlot IN
      (/\ slot >= 0
       /\ s \in DOMAIN sess'
       /\ \/ p \notin DOMAIN sess'[s].peers
          \/ sess'[s].peers[p].Role = RoleSpectator) =>
        sess'[s].playerSlot[slot] = NoPeer

\* C40: the slot table and the roster agree at all times: a slot refers to
\* a peer exactly when that peer is in the roster with that slot, and
\* RemovePeer and DemoteToSpectator leave the slot of the peer free
C40_SlotTableConsistent ==
  /\ []SlotTableMatchesRoster
  /\ [][SlotFreed]_vars

\* slot 1 was freed while slot 2 is still held, and its former holder is a
\* Spectator again or gone
C40_Witness ==
  \E s \in DOMAIN sess :
    /\ sess[s].playerSlot[1] = NoPeer
    /\ sess[s].playerSlot[2] # NoPeer
    /\ sess[s].playerSlot[0] # NoPeer
    /\ FindSlot(sess[s], 1) = 1
====
